---- MODULE Spec2Model ----
(***************************************************************************)
(* A model of @vectrolabs/env (src/lib/main.js, the current implementation *)
(* at lines 1-458): the .env parser with its variable expander, the schema *)
(* validator with its type converter, and the serializer.                  *)
(*                                                                         *)
(* A JavaScript string is modelled as a sequence of one-character strings, *)
(* so that trimming, splitting, quoting and escaping are computed          *)
(* character by character as the code computes them.  A JavaScript object  *)
(* used as a mapping is modelled as a sequence of [key, value] entries in  *)
(* insertion order.                                                        *)
(***************************************************************************)
EXTENDS Integers, Sequences, FiniteSets, TLC

VARIABLES
    env,        \* process.env: a function from names to strings
    content,    \* parse: the text handed to parse(content)
    lines,      \* parse: content.split(/\r?\n/)
    i,          \* parse: the loop index of the for loop (0-based, as in the code)
    result,     \* parse: the mapping built so far
    key,        \* parse: the key of the line whose value is being expanded
    stack,      \* the active calls of expandVariables, the innermost last
    opt,        \* generate: the options handed to generate(options)
    text,       \* generate: the text returned
    input,      \* validateAndConvert: the mapping handed in
    schema,     \* validateAndConvert: the schema handed in
    outcome,    \* validateAndConvert: what the call returned or threw
    outcome2,   \* what the call on the returned mapping, same schema, gave
    convValue,  \* convertType: the value handed in
    convType,   \* convertType: the type name handed in
    convOut,    \* convertType: what the call returned or threw
    entryPoint, \* load / config / populate: the entry point called
    options,    \* load / config: the caller's options; populate: its override
    firstResult,\* the mapping the first call of parse returned
    calls,      \* the number of calls made since the first call of parse
    pc,         \* where the running call is
    err         \* the kind of the error thrown, "none" when none

valVars == <<input, schema, outcome, outcome2>>

convVars == <<convValue, convType, convOut>>

callVars == <<entryPoint, options, firstResult, calls>>

vars == <<env, content, lines, i, result, key, stack, opt, text, valVars,
          convVars, callVars, pc, err>>

----------------------------------------------------------------------------
(* Characters *)

NL == "\n"
CR == "\r"
TAB == "\t"
SP == " "
BS == "\\"
DQ == "\""
SQ == "'"
DOLLAR == "$"

Whitespace == {SP, TAB, NL, CR}

UpperChars == {"A","B","C","D","E","F","G","H","I","J","K","L","M",
               "N","O","P","Q","R","S","T","U","V","W","X","Y","Z"}
LowerChars == {"a","b","c","d","e","f","g","h","i","j","k","l","m",
               "n","o","p","q","r","s","t","u","v","w","x","y","z"}
DigitChars == {"0","1","2","3","4","5","6","7","8","9"}

DigitSeq == <<"0","1","2","3","4","5","6","7","8","9">>

\* [A-Za-z_] and [A-Za-z0-9_] of the expander's pattern
IdentStart == UpperChars \cup LowerChars \cup {"_"}
IdentChars == IdentStart \cup DigitChars

----------------------------------------------------------------------------
(* String primitives of JavaScript, on sequences of characters *)

Contains(s, c) == \E p \in 1..Len(s) : s[p] = c

startsWith(s, c) == Len(s) >= 1 /\ s[1] = c

endsWith(s, c) == Len(s) >= 1 /\ s[Len(s)] = c

RECURSIVE TrimLeft(_)
TrimLeft(s) ==
    IF Len(s) >= 1 /\ s[1] \in Whitespace THEN TrimLeft(Tail(s)) ELSE s

RECURSIVE TrimRight(_)
TrimRight(s) ==
    IF Len(s) >= 1 /\ s[Len(s)] \in Whitespace
    THEN TrimRight(SubSeq(s, 1, Len(s) - 1))
    ELSE s

trim(s) == TrimRight(TrimLeft(s))

\* s.indexOf(c), 1-based; 0 where JavaScript gives -1
RECURSIVE IndexFrom(_, _, _)
IndexFrom(s, c, p) ==
    IF p > Len(s) THEN 0
    ELSE IF s[p] = c THEN p
    ELSE IndexFrom(s, c, p + 1)

indexOf(s, c) == IndexFrom(s, c, 1)

\* s.slice(1, -1)
sliceInner(s) == SubSeq(s, 2, Len(s) - 1)

\* s.slice(0, -1)
sliceInit(s) == SubSeq(s, 1, Len(s) - 1)

\* s.replace(/ab/g, r) for a two-character pattern: left to right, not overlapping
RECURSIVE replacePair(_, _, _, _)
replacePair(s, a, b, r) ==
    IF Len(s) < 2 THEN s
    ELSE IF s[1] = a /\ s[2] = b
         THEN r \o replacePair(SubSeq(s, 3, Len(s)), a, b, r)
         ELSE <<s[1]>> \o replacePair(Tail(s), a, b, r)

\* s.replace(/a/g, r) for a one-character pattern
RECURSIVE replaceChar(_, _, _)
replaceChar(s, a, r) ==
    IF s = <<>> THEN <<>>
    ELSE (IF s[1] = a THEN r ELSE <<s[1]>>) \o replaceChar(Tail(s), a, r)

\* content.split(/\r?\n/): the pieces between line breaks, at least one piece
RECURSIVE SplitFrom(_, _)
SplitFrom(s, cur) ==
    IF s = <<>> THEN <<cur>>
    ELSE IF s[1] = NL THEN <<cur>> \o SplitFrom(Tail(s), <<>>)
    ELSE IF s[1] = CR /\ Len(s) >= 2 /\ s[2] = NL
         THEN <<cur>> \o SplitFrom(SubSeq(s, 3, Len(s)), <<>>)
    ELSE SplitFrom(Tail(s), Append(cur, s[1]))

splitLines(s) == SplitFrom(s, <<>>)

\* lines.join('\n')
RECURSIVE joinLines(_)
joinLines(ls) ==
    IF ls = <<>> THEN <<>>
    ELSE IF Len(ls) = 1 THEN ls[1]
    ELSE ls[1] \o <<NL>> \o joinLines(Tail(ls))

----------------------------------------------------------------------------
(* Mappings: a JavaScript object as a sequence of entries in insertion order *)

Has(m, k) == \E j \in 1..Len(m) : m[j].key = k

Get(m, k) == m[CHOOSE j \in 1..Len(m) : m[j].key = k].value

\* m[k] = v: overwrite in place, or append a new entry
Put(m, k, v) ==
    IF Has(m, k)
    THEN [j \in 1..Len(m) |-> IF m[j].key = k THEN [key |-> k, value |-> v] ELSE m[j]]
    ELSE Append(m, [key |-> k, value |-> v])

Keys(m) == {m[j].key : j \in 1..Len(m)}

----------------------------------------------------------------------------
(* expandVariables *)

\* the depth limit of the expander
MaxDepth == 100

InSeq(x, s) == \E p \in 1..Len(s) : s[p] = x

\* the end of the run [A-Za-z0-9_]* that starts at p (p - 1 when it is empty)
RECURSIVE IdentEnd(_, _)
IdentEnd(s, p) ==
    IF p <= Len(s) /\ s[p] \in IdentChars THEN IdentEnd(s, p + 1) ELSE p - 1

\* One match of /\$\{([^}]+)\}|\$([A-Za-z_][A-Za-z0-9_]*)/ at position p:
\* [stop |-> the last position of the match, name |-> braced || unbraced],
\* stop = 0 when the pattern does not match at p.
matchAt(s, p) ==
    LET close == IndexFrom(s, "}", p + 2)
    IN  IF s[p] # DOLLAR THEN [stop |-> 0, name |-> <<>>]
        ELSE IF p + 1 <= Len(s) /\ s[p + 1] = "{" /\ close > p + 2
             THEN [stop |-> close, name |-> SubSeq(s, p + 2, close - 1)]
        ELSE IF p + 1 <= Len(s) /\ s[p + 1] \in IdentStart
             THEN [stop |-> IdentEnd(s, p + 2),
                   name |-> SubSeq(s, p + 1, IdentEnd(s, p + 2))]
        ELSE [stop |-> 0, name |-> <<>>]

\* a lookup where an empty value of the mapping counts as found
resolve_emptyIsFound(varName, parsed) ==
    IF Has(parsed, varName)
    THEN [found |-> TRUE, val |-> Get(parsed, varName)]
    ELSE IF varName \in DOMAIN env
         THEN [found |-> TRUE, val |-> env[varName]]
         ELSE [found |-> FALSE, val |-> <<>>]

\* parsed[varName] || process.env[varName]: found is FALSE for undefined
resolve(varName, parsed) ==
    IF Has(parsed, varName) /\ Get(parsed, varName) # <<>>
    THEN [found |-> TRUE, val |-> Get(parsed, varName)]
    ELSE IF varName \in DOMAIN env
         THEN [found |-> TRUE, val |-> env[varName]]
         ELSE [found |-> FALSE, val |-> <<>>]

\* a depth check that is off by one: depth >= 100
depthExceeded_offByOne(depth) == depth >= MaxDepth

\* line 156: if (depth > 100)
depthExceeded(depth) == depth > MaxDepth

\* The first position q >= p where the pattern matches, 0 when there is none:
\* value.replace scans left to right and resumes after each match.
RECURSIVE nextMatch(_, _)
nextMatch(value, p) ==
    IF p > Len(value) THEN 0
    ELSE IF matchAt(value, p).stop # 0 THEN p
    ELSE nextMatch(value, p + 1)

\* a callback without the check of the visiting set
expandMatch_noCycleCheck(varName, parsed, visiting, depth) ==
    LET replacement == resolve(varName, parsed)
    IN  IF ~replacement.found THEN [kind |-> "text", val |-> <<>>]
        ELSE IF Contains(replacement.val, DOLLAR)
             THEN [kind |-> "recurse", val |-> replacement.val]
             ELSE [kind |-> "text", val |-> replacement.val]

\* The callback of value.replace for one reference (lines 160-185), up to the
\* point where it returns, throws or calls expandVariables again:
\*   kind "throw":   a circular reference is reported
\*   kind "text":    val is returned as the replacement
\*   kind "recurse": expandVariables(val, parsed, newVisiting, depth + 1) is called
expandMatch(varName, parsed, visiting, depth) ==
    IF InSeq(varName, visiting)
    THEN [kind |-> "throw", val |-> <<>>]
    ELSE LET replacement == resolve(varName, parsed)
         IN  IF ~replacement.found THEN [kind |-> "text", val |-> <<>>]
             ELSE IF Contains(replacement.val, DOLLAR)
                  THEN [kind |-> "recurse", val |-> replacement.val]
                  ELSE [kind |-> "text", val |-> replacement.val]

\* One activation of expandVariables(value, parsed, visiting, depth): p is the
\* position where the scan of value resumes and out the output built so far.
Frame(value, visiting, depth) ==
    [value |-> value, p |-> 1, out |-> <<>>, visiting |-> visiting, depth |-> depth]

----------------------------------------------------------------------------
(* parse *)

\* a loop without the test of i + 1 < lines.length: after the last line it
\* removes the backslash, appends nothing and still advances the index
RECURSIVE joinContinuation_pastEnd(_, _, _)
joinContinuation_pastEnd(ls, line, idx) ==
    IF ~endsWith(line, BS) THEN [line |-> line, i |-> idx]
    ELSE IF idx + 1 < Len(ls)
         THEN joinContinuation_pastEnd(ls, sliceInit(line) \o trim(ls[idx + 2]),
                                       idx + 1)
         ELSE [line |-> sliceInit(line), i |-> idx + 1]

\* lines 96-98: while (line.endsWith("\\") && i + 1 < lines.length)
RECURSIVE joinContinuation(_, _, _)
joinContinuation(ls, line, idx) ==
    IF endsWith(line, BS) /\ idx + 1 < Len(ls)
    THEN joinContinuation(ls, sliceInit(line) \o trim(ls[idx + 2]), idx + 1)
    ELSE [line |-> line, i |-> idx]

\* lines 117-122: the six replace passes, in the code's order
unescape(v) ==
    LET a == replacePair(v, BS, "n", <<NL>>)
        b == replacePair(a, BS, "r", <<CR>>)
        c == replacePair(b, BS, "t", <<TAB>>)
        d == replacePair(c, BS, BS, <<BS>>)
        e == replacePair(d, BS, DQ, <<DQ>>)
    IN  replacePair(e, BS, SQ, <<SQ>>)

\* lines 113-123: quoted values
unquote(value) ==
    IF (startsWith(value, DQ) /\ endsWith(value, DQ))
       \/ (startsWith(value, SQ) /\ endsWith(value, SQ))
    THEN unescape(sliceInner(value))
    ELSE value

\* an iteration that takes a line without "=" as a key with the empty value
lineHead_bareKey(ls, idx) ==
    LET first == trim(ls[idx + 1])
    IN  IF first = <<>> \/ startsWith(first, "#")
        THEN [skip |-> TRUE, i |-> idx, key |-> <<>>, value |-> <<>>]
        ELSE LET j == joinContinuation(ls, first, idx)
                 separatorIndex == IF Contains(j.line, "=")
                                   THEN indexOf(j.line, "=")
                                   ELSE Len(j.line) + 1
                 lhs == trim(SubSeq(j.line, 1, separatorIndex - 1))
                 rhs == trim(SubSeq(j.line, separatorIndex + 1, Len(j.line)))
             IN  IF lhs = <<>>
                 THEN [skip |-> TRUE, i |-> j.i, key |-> <<>>, value |-> <<>>]
                 ELSE [skip |-> FALSE, i |-> j.i, key |-> lhs,
                       value |-> unquote(rhs)]

\* One iteration of the for loop of parse up to the call of expandVariables
\* (lines 88-123), from index idx: skip is TRUE when the iteration ends in a
\* continue; i is the index after the continuation lines were consumed.
lineHead(ls, idx) ==
    LET first == trim(ls[idx + 1])
    IN  IF first = <<>> \/ startsWith(first, "#")
        THEN [skip |-> TRUE, i |-> idx, key |-> <<>>, value |-> <<>>]
        ELSE LET j == joinContinuation(ls, first, idx)
                 line == j.line
                 separatorIndex == indexOf(line, "=")
                 lhs == trim(SubSeq(line, 1, separatorIndex - 1))
                 rhs == trim(SubSeq(line, separatorIndex + 1, Len(line)))
             IN  IF separatorIndex = 0 \/ lhs = <<>>
                 THEN [skip |-> TRUE, i |-> j.i, key |-> <<>>, value |-> <<>>]
                 ELSE [skip |-> FALSE, i |-> j.i, key |-> lhs,
                       value |-> unquote(rhs)]

----------------------------------------------------------------------------
(* generate *)

\* The characters of the model in the order of their UTF-16 code units, which
\* is the order of Array.prototype.sort without a comparator
CodeOrder ==
    << TAB, NL, CR, SP, "!", DQ, "#", "$", "%", "&", SQ, "+", ",", "-", ".", "/",
       "0","1","2","3","4","5","6","7","8","9", ":", ";", "=", "?", "@",
       "A","B","C","D","E","F","G","H","I","J","K","L","M",
       "N","O","P","Q","R","S","T","U","V","W","X","Y","Z",
       "[", BS, "]", "_",
       "a","b","c","d","e","f","g","h","i","j","k","l","m",
       "n","o","p","q","r","s","t","u","v","w","x","y","z",
       "{", "}" >>

CodeUnit(c) == CHOOSE p \in 1..Len(CodeOrder) : CodeOrder[p] = c

\* a < b as JavaScript compares strings
RECURSIVE StrLess(_, _)
StrLess(a, b) ==
    IF b = <<>> THEN FALSE
    ELSE IF a = <<>> THEN TRUE
    ELSE IF a[1] = b[1] THEN StrLess(Tail(a), Tail(b))
    ELSE CodeUnit(a[1]) < CodeUnit(b[1])

\* keys.sort()
RECURSIVE InsertSorted(_, _)
InsertSorted(k, ks) ==
    IF ks = <<>> THEN <<k>>
    ELSE IF StrLess(ks[1], k) THEN <<ks[1]>> \o InsertSorted(k, Tail(ks))
    ELSE <<k>> \o ks

RECURSIVE sortKeys(_)
sortKeys(ks) ==
    IF ks = <<>> THEN <<>> ELSE InsertSorted(ks[1], sortKeys(Tail(ks)))

\* keys.filter(key => list.includes(key)) when member is TRUE,
\* keys.filter(key => !list.includes(key)) when it is FALSE
RECURSIVE filterKeys(_, _, _)
filterKeys(ks, list, member) ==
    IF ks = <<>> THEN <<>>
    ELSE (IF InSeq(ks[1], list) = member THEN <<ks[1]>> ELSE <<>>)
             \o filterKeys(Tail(ks), list, member)

\* Object.keys(source), in insertion order
keysOf(m) == [j \in 1..Len(m) |-> m[j].key]

\* line 408: /[\s"'${}\\]/.test(value)
needsQuotes(value) ==
    \E p \in 1..Len(value) :
        value[p] \in Whitespace \cup {DQ, SQ, DOLLAR, "{", "}", BS}

\* a quoting that escapes the double quotes first and the backslashes second
quotedValue_quotesFirst(value) ==
    IF needsQuotes(value)
    THEN <<DQ>> \o replaceChar(replaceChar(value, DQ, <<BS, DQ>>), BS, <<BS, BS>>)
             \o <<DQ>>
    ELSE value

\* line 409: the value as written after the "="
quotedValue(value) ==
    IF needsQuotes(value)
    THEN <<DQ>> \o replaceChar(replaceChar(value, BS, <<BS, BS>>), DQ, <<BS, DQ>>)
             \o <<DQ>>
    ELSE value

\* a selection that takes an empty include list as no include list
selectKeys_emptyIncludeIsAll(o) ==
    LET all == keysOf(o.source)
        included == IF o.hasInclude /\ o.include # <<>>
                    THEN filterKeys(all, o.include, TRUE)
                    ELSE all
        kept == IF Len(o.exclude) > 0
                THEN filterKeys(included, o.exclude, FALSE)
                ELSE included
    IN  IF o.sort THEN sortKeys(kept) ELSE kept

\* lines 389-402: the keys written, in the order written
selectKeys(o) ==
    LET all == keysOf(o.source)
        included == IF o.hasInclude
                    THEN filterKeys(all, o.include, TRUE)
                    ELSE all
        kept == IF Len(o.exclude) > 0
                THEN filterKeys(included, o.exclude, FALSE)
                ELSE included
    IN  IF o.sort THEN sortKeys(kept) ELSE kept

\* generate(options), lines 376-414; hasInclude is FALSE for include: null
generate(o) ==
    LET keys == selectKeys(o)
    IN  joinLines([j \in 1..Len(keys) |->
                     keys[j] \o <<"=">> \o quotedValue(Get(o.source, keys[j]))])

\* generate({source}) with the other options at their defaults (lines 381-387)
SourceOnly(source) ==
    [source |-> source, hasInclude |-> FALSE, include |-> <<>>,
     exclude |-> <<>>, sort |-> TRUE]

NoOptions == SourceOnly(<<>>)

----------------------------------------------------------------------------
(* Typed values: what validateAndConvert stores in its result.  One record  *)
(* shape for every JavaScript type, so that any two values can be compared: *)
(*   t      the type: "string", "number", "boolean", "array", "null"         *)
(*   s      the characters of a string; the name of a special number         *)
(*   n, e   a finite number n * 10^e, with n not divisible by 10 unless e = 0 *)
(*          or n = 0; a boolean as n = 1 (true) or n = 0 (false)             *)
(*   items  the elements of an array of strings                              *)

StrV(s) == [t |-> "string", s |-> s, n |-> 0, e |-> 0, items |-> <<>>]
BoolV(b) == [t |-> "boolean", s |-> <<>>, n |-> IF b THEN 1 ELSE 0, e |-> 0,
             items |-> <<>>]
ArrV(items) == [t |-> "array", s |-> <<>>, n |-> 0, e |-> 0, items |-> items]
NullV == [t |-> "null", s |-> <<>>, n |-> 0, e |-> 0, items |-> <<>>]
SpecialV(name) == [t |-> "number", s |-> name, n |-> 0, e |-> 0, items |-> <<>>]

RECURSIVE NumV(_, _)
NumV(n, e) ==
    IF n = 0 THEN [t |-> "number", s |-> <<>>, n |-> 0, e |-> 0, items |-> <<>>]
    ELSE IF e > 0 THEN NumV(n * 10, e - 1)
    ELSE IF e < 0 /\ n % 10 = 0 THEN NumV(n \div 10, e + 1)
    ELSE [t |-> "number", s |-> <<>>, n |-> n, e |-> e, items |-> <<>>]

IsString(v) == v.t = "string"

\* a mapping of strings, as parse returns it, as a mapping of typed values
RECURSIVE asValues(_)
asValues(m) ==
    IF m = <<>> THEN <<>>
    ELSE <<[key |-> m[1].key, value |-> StrV(m[1].value)]>> \o asValues(Tail(m))

----------------------------------------------------------------------------
(* convertType *)

UpperSeq == <<"A","B","C","D","E","F","G","H","I","J","K","L","M",
              "N","O","P","Q","R","S","T","U","V","W","X","Y","Z">>
LowerSeq == <<"a","b","c","d","e","f","g","h","i","j","k","l","m",
              "n","o","p","q","r","s","t","u","v","w","x","y","z">>

\* String.prototype.toLowerCase
toLowerCase(s) ==
    [p \in 1..Len(s) |->
        IF s[p] \in UpperChars
        THEN LowerSeq[CHOOSE q \in 1..Len(UpperSeq) : UpperSeq[q] = s[p]]
        ELSE s[p]]

DigitValue(c) == (CHOOSE q \in 1..Len(DigitSeq) : DigitSeq[q] = c) - 1

AllDigits(s) == \A p \in 1..Len(s) : s[p] \in DigitChars

\* the value of a run of decimal digits
RECURSIVE DigitsValue(_)
DigitsValue(s) ==
    IF s = <<>> THEN 0
    ELSE DigitsValue(SubSeq(s, 1, Len(s) - 1)) * 10 + DigitValue(s[Len(s)])

InfinityName == <<"I","n","f","i","n","i","t","y">>
MinusInfinityName == <<"-">> \o InfinityName
NaNName == <<"N","a","N">>

\* the position of the exponent letter of a decimal literal, 0 for none
exponentAt(s) == IF Contains(s, "e") THEN indexOf(s, "e") ELSE indexOf(s, "E")

\* the value of the digits whole.frac with the exponent edigits of sign esign
decimalValue(whole, frac, esign, edigits) ==
    NumV(DigitsValue(whole \o frac),
         (IF esign = "-" THEN 0 - DigitsValue(edigits) ELSE DigitsValue(edigits))
             - Len(frac))

decimalParts(whole, frac, hasExponent, esign, edigits) ==
    IF /\ AllDigits(whole) /\ AllDigits(frac)
       /\ Len(whole) + Len(frac) > 0
       /\ (~hasExponent \/ (edigits # <<>> /\ AllDigits(edigits)))
    THEN [ok |-> TRUE, val |-> decimalValue(whole, frac, esign, edigits)]
    ELSE [ok |-> FALSE, val |-> NullV]

decimalMantissa(mant, dot, hasExponent, esign, edigits) ==
    decimalParts(IF dot = 0 THEN mant ELSE SubSeq(mant, 1, dot - 1),
                 IF dot = 0 THEN <<>> ELSE SubSeq(mant, dot + 1, Len(mant)),
                 hasExponent, esign, edigits)

decimalExponent(mant, expo, hasExponent, expSigned) ==
    decimalMantissa(mant, indexOf(mant, "."), hasExponent,
                    IF expSigned THEN expo[1] ELSE "+",
                    IF expSigned THEN Tail(expo) ELSE expo)

decimalSplit(mant, expo, hasExponent) ==
    decimalExponent(mant, expo, hasExponent,
                    expo # <<>> /\ expo[1] \in {"+", "-"})

decimalAt(s, epos) ==
    decimalSplit(IF epos = 0 THEN s ELSE SubSeq(s, 1, epos - 1),
                 IF epos = 0 THEN <<>> ELSE SubSeq(s, epos + 1, Len(s)),
                 epos # 0)

\* an unsigned decimal literal: digits, digits.digits, digits., .digits, each
\* with an optional exponent e[+-]digits; ok is FALSE for any other text
unsignedDecimal(s) == decimalAt(s, exponentAt(s))

negated(u) == [ok |-> TRUE, val |-> NumV(0 - u.val.n, u.val.e)]

signedDecimal(negative, u) ==
    IF ~u.ok THEN u ELSE IF negative THEN negated(u) ELSE u

toNumberBody(negative, body) ==
    IF body = InfinityName
    THEN [ok |-> TRUE,
          val |-> SpecialV(IF negative THEN MinusInfinityName ELSE InfinityName)]
    ELSE signedDecimal(negative, unsignedDecimal(body))

toNumberSigned(s, signed) ==
    toNumberBody(signed /\ s[1] = "-", IF signed THEN Tail(s) ELSE s)

HexSeq == <<"0","1","2","3","4","5","6","7","8","9","a","b","c","d","e","f">>

\* the radix a literal's second character announces, 0 for none
radixOf(c) ==
    IF c \in {"x", "X"} THEN 16
    ELSE IF c \in {"o", "O"} THEN 8
    ELSE IF c \in {"b", "B"} THEN 2
    ELSE 0

\* the value of a digit in any radix up to 16; 16 for a character that is none
radixDigit(c) ==
    IF \E q \in 1..Len(HexSeq) : HexSeq[q] = toLowerCase(<<c>>)[1]
    THEN (CHOOSE q \in 1..Len(HexSeq) : HexSeq[q] = toLowerCase(<<c>>)[1]) - 1
    ELSE 16

RECURSIVE radixValue(_, _)
radixValue(digits, radix) ==
    IF digits = <<>> THEN 0
    ELSE radixValue(SubSeq(digits, 1, Len(digits) - 1), radix) * radix
             + radixDigit(digits[Len(digits)])

\* an unsigned literal 0x.., 0o.. or 0b.. with at least one digit of its radix
isRadixLiteral(s) ==
    /\ Len(s) >= 3
    /\ s[1] = "0"
    /\ radixOf(s[2]) # 0
    /\ \A p \in 3..Len(s) : radixDigit(s[p]) < radixOf(s[2])

\* Number(text) for a trimmed, non-empty text: a signed decimal literal, a
\* signed Infinity, or an unsigned hexadecimal, octal or binary literal; ok is
\* FALSE where Number gives NaN.
toNumber(s) ==
    IF isRadixLiteral(s)
    THEN [ok |-> TRUE, val |-> NumV(radixValue(SubSeq(s, 3, Len(s)), radixOf(s[2])), 0)]
    ELSE toNumberSigned(s, s # <<>> /\ s[1] \in {"+", "-"})

truthyValues == { <<"t","r","u","e">>, <<"1">>, <<"y","e","s">>, <<"o","n">>,
                  <<"e","n","a","b","l","e","d">> }
falsyValues == { <<"f","a","l","s","e">>, <<"0">>, <<"n","o">>, <<"o","f","f">>,
                 <<"d","i","s","a","b","l","e","d">> }

\* value.split(','): the pieces between commas, at least one piece
RECURSIVE splitComma(_, _)
splitComma(s, cur) ==
    IF s = <<>> THEN <<cur>>
    ELSE IF s[1] = "," THEN <<cur>> \o splitComma(Tail(s), <<>>)
    ELSE splitComma(Tail(s), Append(cur, s[1]))

\* .map(item => item.trim()).filter(item => item !== '')
RECURSIVE trimAndDropEmpty(_)
trimAndDropEmpty(items) ==
    IF items = <<>> THEN <<>>
    ELSE (IF trim(items[1]) = <<>> THEN <<>> ELSE <<trim(items[1])>>)
             \o trimAndDropEmpty(Tail(items))

\* a JSON number: -?(0|[1-9][0-9]*)(.[0-9]+)?([eE][+-]?[0-9]+)?
jsonNumberShape(body, dot) ==
    /\ body # <<>>
    /\ body[1] \in DigitChars
    /\ (body[1] = "0" => (Len(body) = 1 \/ body[2] \in {".", "e", "E"}))
    /\ (dot # 0 => (dot < Len(body) /\ body[dot + 1] \in DigitChars))

\* a JSON string without escapes
jsonStringShape(x, inner) ==
    /\ Len(x) >= 2 /\ x[1] = DQ /\ x[Len(x)] = DQ
    /\ \A p \in 1..Len(inner) : inner[p] \notin {DQ, BS, NL, CR, TAB}

jsonNumber(negative, body) ==
    IF jsonNumberShape(body, indexOf(body, "."))
    THEN signedDecimal(negative, unsignedDecimal(body))
    ELSE [ok |-> FALSE, val |-> NullV]

jsonScalar(x, negative) ==
    IF x = <<"t","r","u","e">> THEN [ok |-> TRUE, val |-> BoolV(TRUE)]
    ELSE IF x = <<"f","a","l","s","e">> THEN [ok |-> TRUE, val |-> BoolV(FALSE)]
    ELSE IF x = <<"n","u","l","l">> THEN [ok |-> TRUE, val |-> NullV]
    ELSE IF jsonStringShape(x, sliceInner(x))
         THEN [ok |-> TRUE, val |-> StrV(sliceInner(x))]
    ELSE jsonNumber(negative, IF negative THEN Tail(x) ELSE x)

jsonTrimmed(x) == jsonScalar(x, x # <<>> /\ x[1] = "-")

\* JSON.parse(text) for the scalar texts: true, false, null, a number, a string
\* without escapes, each between optional white space; ok is FALSE for a
\* syntax error.  Objects and arrays are not modelled and no input of the
\* model holds "{" or "[" under the json type.
jsonParse(s) == jsonTrimmed(trim(s))

Converted(v) == [ok |-> TRUE, val |-> v, error |-> "none"]
Failed(e) == [ok |-> FALSE, val |-> NullV, error |-> e]

TypeString == <<"s","t","r","i","n","g">>
TypeNumber == <<"n","u","m","b","e","r">>
TypeBoolean == <<"b","o","o","l","e","a","n">>
TypeArray == <<"a","r","r","a","y">>
TypeJson == <<"j","s","o","n">>

\* the value returned for the outcome of Number or JSON.parse, or the error
converted(r, error) == IF r.ok THEN Converted(r.val) ELSE Failed(error)

\* lines 309-324
convertNumber(trimmedValue, lower) ==
    IF trimmedValue = <<>> THEN Failed("empty")
    ELSE IF lower = toLowerCase(InfinityName)
         THEN Converted(SpecialV(InfinityName))
    ELSE IF lower = toLowerCase(MinusInfinityName)
         THEN Converted(SpecialV(MinusInfinityName))
    ELSE IF lower = toLowerCase(NaNName) THEN Converted(SpecialV(NaNName))
    ELSE converted(toNumber(trimmedValue), "not-a-number")

\* the words of the first version of the library: true, 1, yes and false, 0, no
convertBoolean_legacy(trimmedValue, lower) ==
    IF trimmedValue = <<>> THEN Failed("empty")
    ELSE IF lower \in {<<"t","r","u","e">>, <<"1">>, <<"y","e","s">>}
         THEN Converted(BoolV(TRUE))
    ELSE IF lower \in {<<"f","a","l","s","e">>, <<"0">>, <<"n","o">>}
         THEN Converted(BoolV(FALSE))
    ELSE Failed("not-a-boolean")

\* lines 326-339
convertBoolean(trimmedValue, lower) ==
    IF trimmedValue = <<>> THEN Failed("empty")
    ELSE IF lower \in truthyValues THEN Converted(BoolV(TRUE))
    ELSE IF lower \in falsyValues THEN Converted(BoolV(FALSE))
    ELSE Failed("not-a-boolean")

\* the array of the first version of the library: value.split(',') with every
\* piece trimmed and none removed
convertArray_legacy(value, trimmedValue) ==
    Converted(ArrV([j \in 1..Len(splitComma(value.s, <<>>)) |->
                       trim(splitComma(value.s, <<>>)[j])]))

\* lines 341-352
convertArray(value, trimmedValue) ==
    IF trimmedValue = <<>> THEN Converted(ArrV(<<>>))
    ELSE Converted(ArrV(trimAndDropEmpty(splitComma(value.s, <<>>))))

\* a switch whose case 'string' falls through to case 'number'
convertType_fallThrough(value, type) ==
    IF ~IsString(value) THEN Failed("not-a-string")
    ELSE IF toLowerCase(type) \in {TypeString, TypeNumber}
         THEN convertNumber(trim(value.s), toLowerCase(trim(value.s)))
    ELSE Failed("unsupported-type")

\* the switch of lines 305-364 on the lower-cased type t
convertSwitch(value, t, trimmedValue) ==
    IF t = TypeString THEN Converted(value)
    ELSE IF t = TypeNumber
         THEN convertNumber(trimmedValue, toLowerCase(trimmedValue))
    ELSE IF t = TypeBoolean
         THEN convertBoolean(trimmedValue, toLowerCase(trimmedValue))
    ELSE IF t = TypeArray THEN convertArray(value, trimmedValue)
    ELSE IF t = TypeJson THEN converted(jsonParse(value.s), "invalid-json")
    ELSE Failed("unsupported-type")

\* convertType(value, type), lines 294-365: the converted value, or the kind
\* of the error thrown
convertType(value, type) ==
    IF ~IsString(value) THEN Failed("not-a-string")
    ELSE convertSwitch(value, toLowerCase(type), trim(value.s))

----------------------------------------------------------------------------
(* validateAndConvert *)

\* A schema: required is the list schema.required, variables the entries of
\* schema.variables in insertion order, each [key, config]; both are empty
\* when the schema has no such property.  A config holds type (empty when the
\* config has none) and default (hasDefault is FALSE for undefined).
NoSchema == [required |-> <<>>, variables |-> <<>>]

Config(type, hasDefault, default) ==
    [type |-> type, hasDefault |-> hasDefault, default |-> default]

RequiredError(name) == [kind |-> "required", key |-> name]
ConversionError(name) == [kind |-> "conversion", key |-> name]

\* parsed[key] is undefined or ''
missingOrEmpty(parsed, name) ==
    ~Has(parsed, name) \/ Get(parsed, name) = StrV(<<>>)

\* the required check of the first version of the library: a missing name only
RECURSIVE requiredErrors_missingOnly(_, _)
requiredErrors_missingOnly(required, parsed) ==
    IF required = <<>> THEN <<>>
    ELSE (IF ~Has(parsed, required[1])
          THEN <<RequiredError(required[1])>> ELSE <<>>)
             \o requiredErrors_missingOnly(Tail(required), parsed)

\* lines 234-245: the errors pushed by the loop over schema.required
RECURSIVE requiredErrors(_, _)
requiredErrors(required, parsed) ==
    IF required = <<>> THEN <<>>
    ELSE (IF ~Has(parsed, required[1]) \/ Get(parsed, required[1]) = StrV(<<>>)
          THEN <<RequiredError(required[1])>> ELSE <<>>)
             \o requiredErrors(Tail(required), parsed)

\* lines 250-268: one entry of schema.variables, from the result and the
\* errors in acc; c is the outcome of convertType on the value of the name
processEntry(acc, name, config, useDefault, c) ==
    IF useDefault
    THEN (IF config.hasDefault
          THEN [acc EXCEPT !.result = Put(@, name, config.default)]
          ELSE acc)
    ELSE IF c.ok THEN [acc EXCEPT !.result = Put(@, name, c.val)]
    ELSE [acc EXCEPT !.errors = Append(@, ConversionError(name))]

\* convertType(value, config.type || 'string', key), for a name parsed has
convertEntry(parsed, name, config) ==
    IF Has(parsed, name)
    THEN convertType(Get(parsed, name),
                     IF config.type = <<>> THEN TypeString ELSE config.type)
    ELSE Failed("not-a-string")

\* the loop over schema.variables of the first version of the library: the
\* default is used for a missing name only, an empty value is converted
RECURSIVE processVariables_missingOnly(_, _, _)
processVariables_missingOnly(variables, parsed, acc) ==
    IF variables = <<>> THEN acc
    ELSE processVariables_missingOnly(Tail(variables), parsed,
            processEntry(acc, variables[1].key, variables[1].config,
                         ~Has(parsed, variables[1].key),
                         convertEntry(parsed, variables[1].key, variables[1].config)))

\* lines 247-270: the loop over schema.variables, from the result and the
\* errors in acc
RECURSIVE processVariables(_, _, _)
processVariables(variables, parsed, acc) ==
    IF variables = <<>> THEN acc
    ELSE processVariables(Tail(variables), parsed,
            processEntry(acc, variables[1].key, variables[1].config,
                         missingOrEmpty(parsed, variables[1].key),
                         convertEntry(parsed, variables[1].key, variables[1].config)))

\* a copy loop that copies every key of parsed
RECURSIVE passThrough_everyKey(_, _, _)
passThrough_everyKey(parsed, variables, res) ==
    IF parsed = <<>> THEN res
    ELSE passThrough_everyKey(Tail(parsed), variables,
                              Put(res, parsed[1].key, parsed[1].value))

\* lines 272-277: the keys of parsed that schema.variables does not name
RECURSIVE passThrough(_, _, _)
passThrough(parsed, variables, res) ==
    IF parsed = <<>> THEN res
    ELSE passThrough(Tail(parsed), variables,
                     IF Has(variables, parsed[1].key) THEN res
                     ELSE Put(res, parsed[1].key, parsed[1].value))

NoOutcome == [threw |-> FALSE, errors |-> <<>>, result |-> <<>>]

\* no call of convertType was made
NoConversion == [ok |-> FALSE, val |-> NullV, error |-> "none"]

\* the options of load and config: hasOverride is FALSE when the caller passes
\* no override
NoLoadOptions == [hasOverride |-> FALSE, override |-> FALSE]

NoFirstResult == [has |-> FALSE, value |-> <<>>]

\* lines 272-283 of a validator that throws at its first violation
finish_failFast(parsed, sch, acc) ==
    IF acc.errors # <<>>
    THEN [threw |-> TRUE, errors |-> <<acc.errors[1]>>, result |-> <<>>]
    ELSE [threw |-> FALSE, errors |-> <<>>,
          result |-> passThrough(parsed, sch.variables, acc.result)]

\* lines 272-283: throw for the errors in acc, or copy the other keys and
\* return
finish(parsed, sch, acc) ==
    IF acc.errors # <<>>
    THEN [threw |-> TRUE, errors |-> acc.errors, result |-> <<>>]
    ELSE [threw |-> FALSE, errors |-> <<>>,
          result |-> passThrough(parsed, sch.variables, acc.result)]

\* validateAndConvert(parsed, schema), lines 214-284, for a well-formed schema
\* (required a list of strings, every config an object): errors are the
\* entries of the single error thrown, result the mapping returned
validateAndConvert(parsed, sch) ==
    finish(parsed, sch,
           processVariables(sch.variables, parsed,
               [result |-> <<>>, errors |-> requiredErrors(sch.required, parsed)]))

----------------------------------------------------------------------------
(* Inputs of parse: documents of at most MaxLines lines drawn from LinePool,  *)
(* and the contents of process.env                                            *)

MaxLines == 2

LinePool ==
    { <<"A","=","$","{","B","}">>,                   \* A=${B}
      <<"B","=","$","{","A","}">>,                   \* B=${A}
      <<"A","=","1">>,                               \* A=1
      <<"A","=">>,                                   \* A=
      <<"B","=","$","A">>,                           \* B=$A
      <<"C","=","$","{","X","1","}">>,               \* C=${X1}
      <<"C","=","$","{","A","}","$","{","B","}">>,   \* C=${A}${B}
      <<"B","=",DQ,"$","{","A","}",SP,"$",DQ>>,      \* B="${A} $"
      <<"#","A","=","2">>,                           \* #A=2
      <<"A">> }                                      \* A

Docs == {joinLines(ls) : ls \in UNION {[1..n -> LinePool] : n \in 1..MaxLines}}

\* the decimal digits of k
RECURSIVE Dec(_)
Dec(k) ==
    IF k < 10 THEN <<DigitSeq[k + 1]>>
    ELSE Dec(k \div 10) \o <<DigitSeq[(k % 10) + 1]>>

ChainName(k) == <<"X">> \o Dec(k)

Ref(name) == <<"$","{">> \o name \o <<"}">>

\* An environment holding a chain of n nested references: the value of X1 is a
\* reference to X2, ..., the value of Xn is a reference to Xn+1, and Xn+1 is "v".
ChainEnv(n) ==
    [name \in {ChainName(k) : k \in 1..(n + 1)} |->
        LET k == CHOOSE k \in 1..(n + 1) : ChainName(k) = name
        IN  IF k <= n THEN Ref(ChainName(k + 1)) ELSE <<"v">>]

EmptyEnv == [name \in {} |-> <<>>]

\* A and B refer to each other in the environment
CycleEnv ==
    [name \in {<<"A">>, <<"B">>} |->
        IF name = <<"A">> THEN Ref(<<"B">>) ELSE Ref(<<"A">>)]

\* chains of exactly MaxDepth and of MaxDepth + 1 nested references
ChainAtLimit == ChainEnv(MaxDepth)
ChainOverLimit == ChainEnv(MaxDepth + 1)

Envs ==
    { EmptyEnv,
      [name \in {<<"A">>} |-> <<"e">>],
      [name \in {<<"A">>} |-> <<>>],
      CycleEnv,
      [name \in {<<"B">>} |-> <<"$","A">>],
      ChainAtLimit,
      ChainOverLimit }

----------------------------------------------------------------------------
(* The specification of one call of parse(content) *)

Init ==
    /\ env \in Envs
    /\ content \in Docs
    /\ lines = <<>>
    /\ i = 0
    /\ result = <<>>
    /\ key = <<>>
    /\ stack = <<>>
    /\ opt = NoOptions
    /\ text = <<>>
    /\ input = <<>>
    /\ schema = NoSchema
    /\ outcome = NoOutcome
    /\ outcome2 = NoOutcome
    /\ convValue = NullV
    /\ convType = <<>>
    /\ convOut = NoConversion
    /\ entryPoint = "none"
    /\ options = NoLoadOptions
    /\ firstResult = NoFirstResult
    /\ calls = 0
    /\ pc = "start"
    /\ err = "none"

\* the assignments of the lines from index idx on, unexpanded
RECURSIVE rawAssignments(_, _, _)
rawAssignments(ls, idx, res) ==
    IF idx >= Len(ls) THEN res
    ELSE LET h == lineHead(ls, idx)
         IN  rawAssignments(ls, h.i + 1,
                            IF h.skip THEN res ELSE Put(res, h.key, h.value))

\* a two-pass parse: every assignment of the file is in the mapping before the
\* first value is expanded
ParseCall_hoisted ==
    /\ pc = "start"
    /\ lines' = splitLines(content)
    /\ i' = 0
    /\ result' = rawAssignments(splitLines(content), 0, <<>>)
    /\ pc' = "loop"
    /\ UNCHANGED <<env, content, key, stack, err, opt, text, valVars, convVars, callVars>>

\* lines 84-85: const result = {}; const lines = content.split(/\r?\n/)
ParseCall ==
    /\ pc = "start"
    /\ lines' = splitLines(content)
    /\ i' = 0
    /\ result' = <<>>
    /\ pc' = "loop"
    /\ UNCHANGED <<env, content, key, stack, err, opt, text, valVars, convVars, callVars>>

\* an iteration that joins the continuation lines without advancing the loop
\* index over them
ParseLine_rescans ==
    /\ pc = "loop"
    /\ i < Len(lines)
    /\ LET h == lineHead(lines, i)
       IN  IF h.skip
           THEN /\ i' = h.i + 1
                /\ UNCHANGED <<key, stack, pc>>
           ELSE /\ i' = i
                /\ key' = h.key
                /\ stack' = <<Frame(h.value, <<>>, 0)>>
                /\ pc' = "expand"
    /\ UNCHANGED <<env, content, lines, result, err, opt, text, valVars, convVars,
                   callVars>>

\* lines 87-126: one iteration of the for loop, until it continues or calls
\* expandVariables(value, result) with an empty visiting set and depth 0
ParseLine ==
    /\ pc = "loop"
    /\ i < Len(lines)
    /\ LET h == lineHead(lines, i)
       IN  IF h.skip
           THEN /\ i' = h.i + 1
                /\ UNCHANGED <<key, stack, pc>>
           ELSE /\ i' = h.i
                /\ key' = h.key
                /\ stack' = <<Frame(h.value, <<>>, 0)>>
                /\ pc' = "expand"
    /\ UNCHANGED <<env, content, lines, result, err, opt, text, valVars, convVars, callVars>>

\* lines 155-158: the innermost call finds its depth over the limit and throws;
\* nothing catches the error before it leaves parse
ExpandDepthExceeded ==
    /\ pc = "expand"
    /\ depthExceeded(stack[Len(stack)].depth)
    /\ pc' = "threw"
    /\ err' = "depth"
    /\ stack' = <<>>
    /\ UNCHANGED <<env, content, lines, i, result, key, opt, text, valVars, convVars, callVars>>

\* lines 160-185: the innermost call reaches its next reference and runs the callback
ExpandRef ==
    /\ pc = "expand"
    /\ LET n == Len(stack)
           f == stack[n]
           q == nextMatch(f.value, f.p)
           m == matchAt(f.value, q)
           r == expandMatch(m.name, result, f.visiting, f.depth)
           literal == SubSeq(f.value, f.p, q - 1)
       IN  /\ ~depthExceeded(f.depth)
           /\ q # 0
           /\ CASE r.kind = "throw" ->
                     /\ pc' = "threw"
                     /\ err' = "circular"
                     /\ stack' = <<>>
                [] r.kind = "text" ->
                     /\ stack' = [stack EXCEPT ![n].out = f.out \o literal \o r.val,
                                               ![n].p = m.stop + 1]
                     /\ UNCHANGED <<pc, err>>
                [] r.kind = "recurse" ->
                     /\ stack' = Append([stack EXCEPT ![n].out = f.out \o literal,
                                                      ![n].p = m.stop + 1],
                                        Frame(r.val, Append(f.visiting, m.name),
                                              f.depth + 1))
                     /\ UNCHANGED <<pc, err>>
    /\ UNCHANGED <<env, content, lines, i, result, key, opt, text, valVars, convVars, callVars>>

\* a parse that also writes every assignment to process.env, as load does
\* after parse
ExpandReturn_exporting ==
    /\ pc = "expand"
    /\ LET n == Len(stack)
           f == stack[n]
           ret == f.out \o SubSeq(f.value, f.p, Len(f.value))
       IN  /\ ~depthExceeded(f.depth)
           /\ nextMatch(f.value, f.p) = 0
           /\ IF n = 1
              THEN /\ result' = Put(result, key, ret)
                   /\ env' = [name \in DOMAIN env \cup {key} |->
                                 IF name = key THEN ret ELSE env[name]]
                   /\ i' = i + 1
                   /\ stack' = <<>>
                   /\ pc' = "loop"
              ELSE /\ stack' = [SubSeq(stack, 1, n - 1) EXCEPT
                                   ![n - 1].out = stack[n - 1].out \o ret]
                   /\ UNCHANGED <<env, result, i, pc>>
    /\ UNCHANGED <<content, lines, key, err, opt, text, valVars, convVars, callVars>>

\* an expander whose calls share one visiting set: the names a call has added
\* are still in the set of its caller after it has returned
ExpandReturn_sharedVisiting ==
    /\ pc = "expand"
    /\ LET n == Len(stack)
           f == stack[n]
           ret == f.out \o SubSeq(f.value, f.p, Len(f.value))
       IN  /\ ~depthExceeded(f.depth)
           /\ nextMatch(f.value, f.p) = 0
           /\ IF n = 1
              THEN /\ result' = Put(result, key, ret)
                   /\ i' = i + 1
                   /\ stack' = <<>>
                   /\ pc' = "loop"
              ELSE /\ stack' = [SubSeq(stack, 1, n - 1) EXCEPT
                                   ![n - 1].out = stack[n - 1].out \o ret,
                                   ![n - 1].visiting = f.visiting]
                   /\ UNCHANGED <<result, i, pc>>
    /\ UNCHANGED <<env, content, lines, key, err, opt, text, valVars, convVars, callVars>>

\* The innermost call has no reference left and returns its output: to the
\* callback that called it (line 178), or to parse, which assigns it to the
\* key of the line (lines 126-128) and goes on with the next line
ExpandReturn ==
    /\ pc = "expand"
    /\ LET n == Len(stack)
           f == stack[n]
           ret == f.out \o SubSeq(f.value, f.p, Len(f.value))
       IN  /\ ~depthExceeded(f.depth)
           /\ nextMatch(f.value, f.p) = 0
           /\ IF n = 1
              THEN /\ result' = Put(result, key, ret)
                   /\ i' = i + 1
                   /\ stack' = <<>>
                   /\ pc' = "loop"
              ELSE /\ stack' = [SubSeq(stack, 1, n - 1) EXCEPT
                                   ![n - 1].out = stack[n - 1].out \o ret]
                   /\ UNCHANGED <<result, i, pc>>
    /\ UNCHANGED <<env, content, lines, key, err, opt, text, valVars, convVars, callVars>>

\* line 131: return result
ParseReturn ==
    /\ pc = "loop"
    /\ i >= Len(lines)
    /\ pc' = "done"
    /\ UNCHANGED <<env, content, lines, i, result, key, stack, err, opt, text, valVars, convVars, callVars>>

Next ==
    \/ ParseCall
    \/ ParseLine
    \/ ExpandDepthExceeded
    \/ ExpandRef
    \/ ExpandReturn
    \/ ParseReturn

Spec == Init /\ [][Next]_vars

----------------------------------------------------------------------------
(* Claims about parse and expandVariables, checked under Spec *)

NameA == <<"A">>
NameB == <<"B">>
NameC == <<"C">>

DocCross == <<"A","=","$","{","B","}",NL,"B","=","$","{","A","}">>
DocChain == <<"C","=","$","{","X","1","}">>

Finished == pc \in {"done", "threw"}

Entry(k, v) == [key |-> k, value |-> v]

\* C1 as stated: parse("A=${B}\nB=${A}"), with neither A nor B in the external
\* environment, fails with a circular-reference error and returns no mapping.
C1_CrossReferenceThrows ==
    (content = DocCross /\ NameA \notin DOMAIN env /\ NameB \notin DOMAIN env)
        => pc # "done"

\* C1 as amended: with neither A nor B in the external environment the parse
\* of "A=${B}\nB=${A}" never throws and returns {A: "", B: ""}; the
\* circular-reference error is raised when the external environment maps A to
\* "${B}" and B to "${A}", and then no mapping is returned.
C1_CrossReferenceResolvesEmpty ==
    /\ (content = DocCross /\ NameA \notin DOMAIN env /\ NameB \notin DOMAIN env)
          => /\ pc # "threw"
             /\ pc = "done" => result = <<Entry(NameA, <<>>), Entry(NameB, <<>>)>>
    /\ (content = DocCross /\ env = CycleEnv /\ Finished)
          => (pc = "threw" /\ err = "circular")

C1_Witness ==
    /\ content = DocCross
    /\ env = EmptyEnv
    /\ pc = "done"
    /\ result = <<Entry(NameA, <<>>), Entry(NameB, <<>>)>>

\* C2: a value resolved through a chain of MaxDepth + 1 nested references (the
\* value of each referenced name is itself a reference to the next name) fails
\* with the depth error; through a chain of exactly MaxDepth nested references
\* it succeeds and yields the value at the end of the chain.
C2_DepthLimit ==
    (content = DocChain /\ Finished) =>
        /\ env = ChainOverLimit => (pc = "threw" /\ err = "depth")
        /\ env = ChainAtLimit =>
              (pc = "done" /\ result = <<Entry(NameC, <<"v">>)>>)

C2_Witness ==
    /\ content = DocChain
    /\ env = ChainOverLimit
    /\ pc = "threw"
    /\ err = "depth"

\* the lines B=${A} and B=$A
RefLinesToA == { <<"B","=","$","{","A","}">>, <<"B","=","$","A">> }

\* the value the resolution order of C3 picks for NAME under the mapping m
Chosen(name, m) ==
    IF Has(m, name) /\ Get(m, name) # <<>> THEN Get(m, name)
    ELSE IF name \in DOMAIN env THEN env[name]
    ELSE <<>>

\* C3: a reference to NAME is replaced by the mapping's value for NAME when
\* that value is not empty, otherwise by the external environment's value,
\* otherwise by the empty string (checked where the value picked holds no
\* further reference: on the mapping returned for every document whose last
\* line is B=${A} or B=$A); and parse("A=1\nB=${A}") is {A: "1", B: "1"}
\* whatever the external environment holds.
C3_ResolutionOrder ==
    /\ (/\ pc = "done"
        /\ lines[Len(lines)] \in RefLinesToA
        /\ ~Contains(Chosen(NameA, result), DOLLAR))
          => (Has(result, NameB) /\ Get(result, NameB) = Chosen(NameA, result))
    /\ (pc = "done" /\ content = <<"A","=","1",NL,"B","=","$","{","A","}">>)
          => result = <<Entry(NameA, <<"1">>), Entry(NameB, <<"1">>)>>

\* the file maps A to the empty string, the environment maps A to "e"
C3_Witness ==
    /\ pc = "done"
    /\ lines[Len(lines)] \in RefLinesToA
    /\ Has(result, NameA) /\ Get(result, NameA) = <<>>
    /\ NameA \in DOMAIN env /\ env[NameA] = <<"e">>
    /\ Get(result, NameB) = <<"e">>

\* what a step may change of the mapping: nothing, or the value of one key k
OnlyWrites(k) ==
    \A j \in 1..Len(result) :
        result[j].key # k =>
            (j <= Len(result') /\ result'[j] = result[j])

\* C4: the expansion of a line's value never changes the mapping, the only
\* write of a processed line is the assignment of its own key, and a
\* reference to a key first assigned on a later line is not resolved from the
\* file: after a first line B=${A} (or B=$A) the mapping is {B: e}, e being the
\* external environment's value for A or the empty string, whatever the later
\* lines assign.
C4_ExpansionFrame ==
    /\ [][/\ (pc = "expand" /\ pc' = "expand") => result' = result
          /\ (pc = "expand" /\ pc' = "loop") =>
                /\ OnlyWrites(key)
                /\ Keys(result') = Keys(result) \cup {key}
          /\ (pc = "loop" /\ pc' # "start") => result' = result]_vars
    /\ []((/\ pc = "loop" /\ i = 1
           /\ lines[1] \in RefLinesToA
           /\ ~Contains(Chosen(NameA, <<>>), DOLLAR))
             => result = <<Entry(NameB, Chosen(NameA, <<>>))>>)

\* B=${A} is followed by A=1 and B is empty in the returned mapping
C4_Witness ==
    /\ pc = "done"
    /\ content = <<"B","=","$","{","A","}",NL,"A","=","1">>
    /\ env = EmptyEnv
    /\ result = <<Entry(NameB, <<>>), Entry(NameA, <<"1">>)>>

----------------------------------------------------------------------------
(* The round trip: generate({source: {KEY: value}}), then parse of its text *)

MaxValueLen == 2

RoundTripChars == {"a", "n", BS, DQ, SQ, SP, NL, "=", "#"}

\* every string of at most MaxValueLen characters of RoundTripChars: none holds "$"
RoundTripValues == UNION {[1..n -> RoundTripChars] : n \in 0..MaxValueLen}

RoundTripKeys == {<<"K">>, <<"K","_","2">>}

InitRoundTrip ==
    /\ env = EmptyEnv
    /\ content = <<>>
    /\ lines = <<>>
    /\ i = 0
    /\ result = <<>>
    /\ key = <<>>
    /\ stack = <<>>
    /\ opt \in {SourceOnly(<<[key |-> k, value |-> v]>>) :
                    k \in RoundTripKeys, v \in RoundTripValues}
    /\ text = <<>>
    /\ input = <<>>
    /\ schema = NoSchema
    /\ outcome = NoOutcome
    /\ outcome2 = NoOutcome
    /\ convValue = NullV
    /\ convType = <<>>
    /\ convOut = NoConversion
    /\ entryPoint = "none"
    /\ options = NoLoadOptions
    /\ firstResult = NoFirstResult
    /\ calls = 0
    /\ pc = "generate"
    /\ err = "none"

\* generate(options), lines 376-414
GenerateCall ==
    /\ pc = "generate"
    /\ text' = generate(opt)
    /\ pc' = "generated"
    /\ UNCHANGED <<env, content, lines, i, result, key, stack, opt, err, valVars, convVars, callVars>>

\* the text generated is handed to parse
ParseGenerated ==
    /\ pc = "generated"
    /\ content' = text
    /\ pc' = "start"
    /\ UNCHANGED <<env, lines, i, result, key, stack, opt, text, err, valVars, convVars, callVars>>

\* The values hold no "$": the expander meets no reference, so ExpandRef and
\* ExpandDepthExceeded are never enabled here.
NextRoundTrip ==
    \/ GenerateCall
    \/ ParseGenerated
    \/ ParseCall
    \/ ParseLine
    \/ ExpandReturn
    \/ ParseReturn

SpecRoundTrip == InitRoundTrip /\ [][NextRoundTrip]_vars

\* C5: for every key and every value without "$", parsing the line generated
\* for {KEY: value} returns exactly value for KEY.
C5_RoundTrip ==
    pc = "done" =>
        /\ Has(result, opt.source[1].key)
        /\ Get(result, opt.source[1].key) = opt.source[1].value

----------------------------------------------------------------------------
(* The specification of validateAndConvert(input, schema), followed by the   *)
(* same call on the mapping it returned                                       *)

MaxRequired == 2

NameP == <<"P">>
NameD == <<"D">>
NameX == <<"X">>

TypeNumberUpper == <<"N","U","M","B","E","R">>
TypeBogus == <<"b","o","g","u","s">>

\* the values a key of the input has: "", "1", "x"
InputTexts == { <<>>, <<"1">>, <<"x">> }

\* a mapping of P, D and X, each absent or one of the input values
OptEntry(name, choice) ==
    IF choice = <<"absent">> THEN <<>> ELSE <<[key |-> name, value |-> StrV(choice)]>>

Inputs ==
    { OptEntry(NameP, x) \o OptEntry(NameD, y) \o OptEntry(NameX, z) :
        x \in InputTexts \cup {<<"absent">>},
        y \in InputTexts \cup {<<"absent">>},
        z \in {<<"x">>, <<"absent">>} }

\* the defaults of a config: none, the number 3000, the string "d"
Defaults == { [has |-> FALSE, val |-> NullV],
              [has |-> TRUE, val |-> NumV(3000, 0)],
              [has |-> TRUE, val |-> StrV(<<"d">>)] }

ConfigsOfP ==
    { Config(t, d.has, d.val) :
        t \in { <<>>, TypeString, TypeNumber, TypeNumberUpper, TypeBoolean,
                TypeArray, TypeJson, TypeBogus },
        d \in Defaults }

ConfigsOfD ==
    { Config(TypeNumber, FALSE, NullV), Config(TypeString, TRUE, StrV(<<"d">>)) }

\* the entries of schema.variables for one name: none, or one of the configs
EntriesFor(name, configs) ==
    {<<>>} \cup { <<[key |-> name, config |-> c]>> : c \in configs }

\* schema.variables names P, D, both or neither; X is never named
VariableLists ==
    { p \o d : p \in EntriesFor(NameP, ConfigsOfP),
                d \in EntriesFor(NameD, ConfigsOfD) }

\* schema.required: at most MaxRequired names of P, D, X
RequiredLists == UNION {[1..n -> {NameP, NameD, NameX}] : n \in 0..MaxRequired}

Schemas == { [required |-> r, variables |-> v] :
                r \in RequiredLists, v \in VariableLists }

InitValidate ==
    /\ env = EmptyEnv
    /\ content = <<>>
    /\ lines = <<>>
    /\ i = 0
    /\ result = <<>>
    /\ key = <<>>
    /\ stack = <<>>
    /\ opt = NoOptions
    /\ text = <<>>
    /\ input \in Inputs
    /\ schema \in Schemas
    /\ outcome = NoOutcome
    /\ outcome2 = NoOutcome
    /\ convValue = NullV
    /\ convType = <<>>
    /\ convOut = NoConversion
    /\ entryPoint = "none"
    /\ options = NoLoadOptions
    /\ firstResult = NoFirstResult
    /\ calls = 0
    /\ pc = "validate"
    /\ err = "none"

\* validateAndConvert(input, schema)
ValidateCall ==
    /\ pc = "validate"
    /\ outcome' = validateAndConvert(input, schema)
    /\ pc' = "validated"
    /\ UNCHANGED <<env, content, lines, i, result, key, stack, opt, text,
                   input, schema, outcome2, err, convVars, callVars>>

\* validateAndConvert(validateAndConvert(input, schema), schema)
ValidateAgain ==
    /\ pc = "validated"
    /\ ~outcome.threw
    /\ outcome2' = validateAndConvert(outcome.result, schema)
    /\ pc' = "revalidated"
    /\ UNCHANGED <<env, content, lines, i, result, key, stack, opt, text,
                   input, schema, outcome, err, convVars, callVars>>

NextValidate == ValidateCall \/ ValidateAgain

SpecValidate == InitValidate /\ [][NextValidate]_vars

----------------------------------------------------------------------------
(* Claims about validateAndConvert, checked under SpecValidate *)

VariableNames == {schema.variables[j].key : j \in 1..Len(schema.variables)}

ErrorSet(o) == {o.errors[j] : j \in 1..Len(o.errors)}

\* the input has a non-empty value for name
NonEmpty(name) == Has(input, name) /\ Get(input, name) # StrV(<<>>)

TypeOf(config) == IF config.type = <<>> THEN TypeString ELSE config.type

RequiredViolation(name) == ~NonEmpty(name)

ConversionViolation(entry) ==
    /\ NonEmpty(entry.key)
    /\ ~convertType(Get(input, entry.key), TypeOf(entry.config)).ok

\* one entry per violation: the required names that are absent or empty, in
\* the order of schema.required, then the variables whose value cannot be
\* converted, in the order of schema.variables
ViolationsFound ==
    LET r == SelectSeq(schema.required, RequiredViolation)
        c == SelectSeq(schema.variables, ConversionViolation)
    IN  [j \in 1..Len(r) |-> RequiredError(r[j])]
            \o [j \in 1..Len(c) |-> ConversionError(c[j].key)]

\* C6: validateAndConvert examines every required name and every variable
\* before it fails: the error it raises lists one entry per violation found,
\* and it raises if and only if there is at least one violation.
C6_FailSlow ==
    pc = "validated" =>
        /\ outcome.errors = ViolationsFound
        /\ outcome.threw <=> ViolationsFound # <<>>

\* two required names and a conversion fail in one call
C6_Witness ==
    /\ pc = "validated"
    /\ outcome.threw
    /\ Len(outcome.errors) >= 3
    /\ RequiredError(NameX) \in ErrorSet(outcome)
    /\ RequiredError(NameD) \in ErrorSet(outcome)
    /\ ConversionError(NameP) \in ErrorSet(outcome)

\* C7: when validateAndConvert succeeds, the keys of its result are the
\* variables of the schema that have a non-empty input value or a default,
\* and the input keys the schema's variables do not name; the latter have
\* their input values.
C7_ResultKeys ==
    (pc = "validated" /\ ~outcome.threw) =>
        /\ Keys(outcome.result) =
              { schema.variables[j].key : j \in
                  { j \in 1..Len(schema.variables) :
                      \/ NonEmpty(schema.variables[j].key)
                      \/ schema.variables[j].config.hasDefault } }
              \cup (Keys(input) \ VariableNames)
        /\ \A k \in Keys(input) \ VariableNames :
              Get(outcome.result, k) = Get(input, k)

\* P is empty and has no default (left out), D is converted or defaulted, X is
\* passed through
C7_Witness ==
    /\ pc = "validated"
    /\ ~outcome.threw
    /\ VariableNames = {NameP, NameD}
    /\ Has(input, NameP)
    /\ Keys(outcome.result) = {NameD, NameX}
    /\ Get(outcome.result, NameX) = StrV(<<"x">>)

\* C8: a required name that is absent from the input or mapped to the empty
\* string makes validateAndConvert fail with a required-missing entry for it,
\* also when schema.variables gives the name a default; a required name with
\* a non-empty value never gets a required-missing entry.
C8_RequiredMissingOrEmpty ==
    pc = "validated" =>
        \A j \in 1..Len(schema.required) :
            LET name == schema.required[j]
            IN  IF NonEmpty(name)
                THEN RequiredError(name) \notin ErrorSet(outcome)
                ELSE outcome.threw /\ RequiredError(name) \in ErrorSet(outcome)

\* P is required, empty in the input, and has a default
C8_Witness ==
    /\ pc = "validated"
    /\ schema.required = <<NameP>>
    /\ Has(input, NameP) /\ Get(input, NameP) = StrV(<<>>)
    /\ \E j \in 1..Len(schema.variables) :
          schema.variables[j].key = NameP /\ schema.variables[j].config.hasDefault
    /\ outcome.threw
    /\ outcome.errors = <<RequiredError(NameP)>>

\* C9: for a variable of the schema that is absent from the input or empty:
\* with a default, the result maps the name to the default as it is, and no
\* conversion entry is recorded whatever the declared type; without a
\* default, the name is not in the result and no entry is recorded for it
\* unless it is listed in schema.required.  validate({P: ""}, {variables:
\* {P: {type: "number", default: 3000}}}) is {P: 3000}.
C9_DefaultOrOmitted ==
    pc = "validated" =>
        /\ \A j \in 1..Len(schema.variables) :
              LET name == schema.variables[j].key
                  config == schema.variables[j].config
              IN  ~NonEmpty(name) =>
                    /\ ConversionError(name) \notin ErrorSet(outcome)
                    /\ RequiredError(name) \in ErrorSet(outcome)
                          => InSeq(name, schema.required)
                    /\ ~outcome.threw =>
                          IF config.hasDefault
                          THEN /\ Has(outcome.result, name)
                               /\ Get(outcome.result, name) = config.default
                          ELSE ~Has(outcome.result, name)
        /\ (/\ input = <<[key |-> NameP, value |-> StrV(<<>>)]>>
            /\ schema = [required |-> <<>>,
                         variables |-> <<[key |-> NameP,
                             config |-> Config(TypeNumber, TRUE, NumV(3000, 0))]>>])
              => outcome = [threw |-> FALSE, errors |-> <<>>,
                            result |-> <<[key |-> NameP, value |-> NumV(3000, 0)]>>]

\* P is empty, declared a number, and gets the string default "d" unconverted
C9_Witness ==
    /\ pc = "validated"
    /\ input = <<[key |-> NameP, value |-> StrV(<<>>)]>>
    /\ schema.variables =
          <<[key |-> NameP, config |-> Config(TypeNumber, TRUE, StrV(<<"d">>))]>>
    /\ ~outcome.threw
    /\ outcome.result = <<[key |-> NameP, value |-> StrV(<<"d">>)]>>

\* C10 as stated: whenever validate(m, s) succeeds, validate(validate(m, s), s)
\* succeeds too and returns an equal mapping.
C10_Idempotent ==
    pc = "revalidated" =>
        (~outcome2.threw /\ outcome2.result = outcome.result)

\* every variable of the schema is declared with type string (in any case, or
\* with no type) and has a string as its default, if it has one
StringSchema ==
    \A j \in 1..Len(schema.variables) :
        LET config == schema.variables[j].config
        IN  /\ toLowerCase(TypeOf(config)) = TypeString
            /\ config.hasDefault => IsString(config.default)

\* C10 as amended: for a mapping m of strings and a schema s whose variables
\* all have type string and string defaults, whenever validate(m, s) succeeds,
\* validate(validate(m, s), s) succeeds too and returns an equal mapping.
C10_IdempotentForStringSchemas ==
    (pc = "revalidated" /\ StringSchema) =>
        (~outcome2.threw /\ outcome2.result = outcome.result)

\* P is converted as a string, D is defaulted, X is passed through, twice
C10_Witness ==
    /\ pc = "revalidated"
    /\ StringSchema
    /\ VariableNames = {NameP, NameD}
    /\ NonEmpty(NameP) /\ ~NonEmpty(NameD) /\ NonEmpty(NameX)
    /\ ~outcome2.threw
    /\ Keys(outcome2.result) = {NameP, NameD, NameX}

----------------------------------------------------------------------------
(* The specification of generate(options) alone: sources of at most MaxKeys  *)
(* keys, with and without include, exclude and sort                          *)

MaxKeys == 3

KeyPool == { <<"B">>, <<"A">>, <<"a">>, <<"A","1">> }

NameZ == <<"Z">>

\* the value of the first key of a source: plain texts and texts holding each
\* of the characters that generate quotes
GenerateValues ==
    { <<>>, <<"1">>, <<"=">>, <<"#">>, <<"a", SP, "b">>, <<TAB>>, <<NL>>, <<CR>>,
      <<DQ>>, <<SQ>>, <<DOLLAR>>, <<"{">>, <<"}">>, <<BS>>, <<"a", BS, DQ>>,
      <<BS, BS, DQ, DQ>> }

\* the value of every later key: its position in the source
LaterValue(j) == <<DigitSeq[j + 1]>>

\* the lists of at most MaxKeys distinct keys of KeyPool
KeyLists ==
    { ks \in UNION {[1..n -> KeyPool] : n \in 0..MaxKeys} :
        \A p, q \in 1..Len(ks) : p # q => ks[p] # ks[q] }

Sources ==
    { [j \in 1..Len(ks) |->
          [key |-> ks[j], value |-> IF j = 1 THEN v ELSE LaterValue(j)]] :
        ks \in KeyLists, v \in GenerateValues }

\* include: null, and lists with a key no source has and with a repeated key
Includes ==
    { [has |-> FALSE, list |-> <<>>], [has |-> TRUE, list |-> <<>>],
      [has |-> TRUE, list |-> <<<<"A">>>>],
      [has |-> TRUE, list |-> <<<<"a">>, <<"B">>>>],
      [has |-> TRUE, list |-> <<<<"A">>, NameZ, <<"A">>>>] }

Excludes == { <<>>, <<<<"A">>>>, <<<<"B">>, NameZ>> }

GenerateOptions ==
    { [source |-> src, hasInclude |-> inc.has, include |-> inc.list,
       exclude |-> exc, sort |-> srt] :
        src \in Sources, inc \in Includes, exc \in Excludes, srt \in BOOLEAN }

InitGenerate ==
    /\ env = EmptyEnv
    /\ content = <<>>
    /\ lines = <<>>
    /\ i = 0
    /\ result = <<>>
    /\ key = <<>>
    /\ stack = <<>>
    /\ opt \in GenerateOptions
    /\ text = <<>>
    /\ input = <<>>
    /\ schema = NoSchema
    /\ outcome = NoOutcome
    /\ outcome2 = NoOutcome
    /\ convValue = NullV
    /\ convType = <<>>
    /\ convOut = NoConversion
    /\ entryPoint = "none"
    /\ options = NoLoadOptions
    /\ firstResult = NoFirstResult
    /\ calls = 0
    /\ pc = "generate"
    /\ err = "none"

NextGenerate == GenerateCall

SpecGenerate == InitGenerate /\ [][NextGenerate]_vars

\* the key is selected: in include when include is given, and not in exclude
Selected(k) ==
    /\ opt.hasInclude => InSeq(k, opt.include)
    /\ ~InSeq(k, opt.exclude)

SelectedKeys == {k \in Keys(opt.source) : Selected(k)}

Ascending(ks) == \A p, q \in 1..Len(ks) : p < q => StrLess(ks[p], ks[q])

\* the selected keys, each once: ascending when sort is set, in the order of
\* the source when it is not
EmittedKeys ==
    IF opt.sort
    THEN CHOOSE ks \in [1..Cardinality(SelectedKeys) -> SelectedKeys] :
            Ascending(ks)
    ELSE SelectSeq(keysOf(opt.source), Selected)

\* C11: generate writes one KEY=VALUE line for each key of source that is in
\* include (when include is given) and not in exclude, ascending when sort is
\* set and in source order otherwise, the lines joined by one newline with no
\* newline at the end; no key selected gives the empty text, and
\* generate({source: {B: "1", A: "2"}, sort: true}) is "A=2\nB=1".
C11_KeySelection ==
    pc = "generated" =>
        /\ text = joinLines([j \in 1..Len(EmittedKeys) |->
                      EmittedKeys[j] \o <<"=">>
                          \o quotedValue(Get(opt.source, EmittedKeys[j]))])
        /\ SelectedKeys = {} => text = <<>>
        /\ (/\ opt.source = <<[key |-> <<"B">>, value |-> <<"1">>],
                              [key |-> <<"A">>, value |-> <<"2">>]>>
            /\ ~opt.hasInclude /\ opt.exclude = <<>> /\ opt.sort)
              => text = <<"A", "=", "2", NL, "B", "=", "1">>

\* B, A, a in the source; include names a, B; exclude names B and Z; sorted:
\* only a is written
C11_Witness ==
    /\ pc = "generated"
    /\ keysOf(opt.source) = <<<<"B">>, <<"A">>, <<"a">>>>
    /\ opt.source[1].value = <<"1">>
    /\ opt.hasInclude /\ opt.include = <<<<"a">>, <<"B">>>>
    /\ opt.exclude = <<<<"B">>, NameZ>>
    /\ opt.sort
    /\ text = <<"a", "=", "3">>

\* the value holds none of the characters that make generate quote it
Plain(value) ==
    \A p \in 1..Len(value) :
        value[p] \notin {SP, TAB, NL, CR, DQ, SQ, DOLLAR, "{", "}", BS}

\* value with every backslash doubled and a backslash before every double quote
RECURSIVE Escaped(_)
Escaped(value) ==
    IF value = <<>> THEN <<>>
    ELSE (IF value[1] = BS THEN <<BS, BS>>
          ELSE IF value[1] = DQ THEN <<BS, DQ>>
          ELSE <<value[1]>>) \o Escaped(Tail(value))

Written(value) ==
    IF Plain(value) THEN value ELSE <<DQ>> \o Escaped(value) \o <<DQ>>

\* C12: generate writes a value as it is if and only if it holds no white
\* space, no quote, no "$", "{", "}" and no backslash; otherwise it writes it
\* between double quotes with every backslash doubled and a backslash before
\* every double quote, nothing else changed.
C12_Quoting ==
    pc = "generated" =>
        LET keys == selectKeys(opt)
        IN  text = joinLines([j \in 1..Len(keys) |->
                      keys[j] \o <<"=">> \o Written(Get(opt.source, keys[j]))])

\* the value a\" is written as "a\\\""
C12_Witness ==
    /\ pc = "generated"
    /\ opt.source = <<[key |-> <<"A">>, value |-> <<"a", BS, DQ>>]>>
    /\ ~opt.hasInclude /\ opt.exclude = <<>>
    /\ text = <<"A", "=", DQ, "a", BS, BS, BS, DQ, DQ>>

----------------------------------------------------------------------------
(* The specification of parse on documents of malformed and continued lines. *)
(* No line holds "$" or a quote, so the expander returns every value as it   *)
(* is.  Every line of the pool has a letter of its own (p, q, ...), which     *)
(* shows where the line went in the returned mapping.                         *)

MaxPhysical == 3

LineAssignContinued == <<"A", "=", "p", BS>>            \* A=p\
LineAssignPadded == <<SP, "B", SP, "=", SP, "q", SP>>    \*  B = q
LineBareContinued == <<"r", BS>>                         \* r\
LineBare == <<"s">>                                      \* s
LineNoKey == <<SP, "=", "t">>                            \*  =t
LineCommentContinued == <<"#", "u", BS>>                 \* #u\
LineTwoBackslashes == <<"C", "=", "v", BS, BS>>          \* C=v\\
LineBlank == <<SP>>                                      \* a blank line

ContinuationPool ==
    { LineAssignContinued, LineAssignPadded, LineBareContinued, LineBare,
      LineNoKey, LineCommentContinued, LineTwoBackslashes, LineBlank }

\* the documents of at most MaxPhysical different lines of the pool
LineDocs ==
    { ls \in UNION {[1..n -> ContinuationPool] : n \in 1..MaxPhysical} :
        \A p, q \in 1..Len(ls) : p # q => ls[p] # ls[q] }

InitLines ==
    /\ env = EmptyEnv
    /\ content \in {joinLines(ls) : ls \in LineDocs}
    /\ lines = <<>>
    /\ i = 0
    /\ result = <<>>
    /\ key = <<>>
    /\ stack = <<>>
    /\ opt = NoOptions
    /\ text = <<>>
    /\ input = <<>>
    /\ schema = NoSchema
    /\ outcome = NoOutcome
    /\ outcome2 = NoOutcome
    /\ convValue = NullV
    /\ convType = <<>>
    /\ convOut = NoConversion
    /\ entryPoint = "none"
    /\ options = NoLoadOptions
    /\ firstResult = NoFirstResult
    /\ calls = 0
    /\ pc = "start"
    /\ err = "none"

\* No value holds "$": ExpandRef and ExpandDepthExceeded are never enabled.
NextLines ==
    \/ ParseCall
    \/ ParseLine
    \/ ExpandReturn
    \/ ParseReturn

SpecLines == InitLines /\ [][NextLines]_vars

----------------------------------------------------------------------------
(* Claims about the lines of parse, checked under SpecLines *)

RemoveAt(ls, p) == SubSeq(ls, 1, p - 1) \o SubSeq(ls, p + 1, Len(ls))

\* the line has no "=", or nothing but white space before its first "="
Malformed(line) ==
    \/ ~Contains(line, "=")
    \/ trim(SubSeq(line, 1, indexOf(line, "=") - 1)) = <<>>

\* Line p is a malformed line of its own: it is not blank and not a comment,
\* no line is appended to it, and it is appended to no line, because the line
\* before it is not blank and does not end in a backslash.
DroppedAlone(ls, p) ==
    LET line == trim(ls[p])
    IN  /\ line # <<>> /\ ~startsWith(line, "#")
        /\ Malformed(line)
        /\ ~endsWith(line, BS) \/ p = Len(ls)
        /\ p > 1 => (trim(ls[p - 1]) # <<>> /\ ~endsWith(trim(ls[p - 1]), BS))

TrimmedNonEmpty(k) ==
    /\ k # <<>>
    /\ k[1] \notin Whitespace
    /\ k[Len(k)] \notin Whitespace

\* C13: parse does not throw for a malformed line: a line without "=" and a
\* line with an empty key are dropped, the mapping returned is the one
\* returned for the document without the dropped line, and every key of it is
\* a non-empty string without white space at either end.
C13_MalformedLinesDropped ==
    /\ pc # "threw" /\ err = "none"
    /\ pc = "done" =>
          /\ \A k \in Keys(result) : TrimmedNonEmpty(k)
          /\ \A p \in 1..Len(lines) :
                DroppedAlone(lines, p) =>
                    result = rawAssignments(RemoveAt(lines, p), 0, <<>>)

\* s, then B = q, then =t: the mapping is {B: "q"}
C13_Witness ==
    /\ pc = "done"
    /\ lines = <<LineBare, LineAssignPadded, LineNoKey>>
    /\ DroppedAlone(lines, 1) /\ DroppedAlone(lines, 3)
    /\ result = <<[key |-> <<"B">>, value |-> <<"q">>]>>

----------------------------------------------------------------------------
(* The specification of convertType(value, type) on strings *)

\* the texts converted: the boolean words in several spellings, lists, numbers
\* in decimal and other notations, and texts that are none of these
ConvertTexts ==
    { <<"t", "r", "u", "e">>,
      <<"T", "R", "U", "E">>,
      <<SP, "T", "r", "u", "e", SP>>,
      <<TAB, "t", "r", "u", "e", NL>>,
      <<"1">>,
      <<"y", "e", "s">>,
      <<"Y", "E", "S">>,
      <<"o", "n">>,
      <<"e", "n", "a", "b", "l", "e", "d">>,
      <<"f", "a", "l", "s", "e">>,
      <<"0">>,
      <<"n", "o">>,
      <<"o", "f", "f">>,
      <<"d", "i", "s", "a", "b", "l", "e", "d">>,
      <<SP, "O", "f", "f">>,
      <<"m", "a", "y", "b", "e">>,
      <<"2">>,
      <<>>,
      <<SP>>,
      <<"t", "r", "u">>,
      <<"y">>,
      <<"a", ",", SP, "b", SP, ",", ",", "c">>,
      <<",">>,
      <<SP, ",", SP>>,
      <<"a">>,
      <<",", "a", ",">>,
      <<"a", ",", "b">>,
      <<"a", SP, "b", ",", SP, "c">>,
      <<"1", "2">>,
      <<SP, "3", ".", "5", SP>>,
      <<"-", "1", "e", "2">>,
      <<"1", "e", "-", "2">>,
      <<".", "5">>,
      <<"5", ".">>,
      <<"+", "7">>,
      <<"a", "b", "c">>,
      <<"1", "2", "a", "b", "c">>,
      <<"1", ",", "5">>,
      <<"I", "n", "f", "i", "n", "i", "t", "y">>,
      <<"i", "n", "f", "i", "n", "i", "t", "y">>,
      <<"-", "I", "N", "F", "I", "N", "I", "T", "Y">>,
      <<"N", "a", "N">>,
      <<"n", "a", "n">>,
      <<"0", "x", "1", "0">>,
      <<"0", "X", "1", "f">>,
      <<"0", "b", "1", "1">>,
      <<"0", "o", "1", "7">>,
      <<"-", "0", "x", "1", "0">>,
      <<"0", "x">>,
      <<"1", "e">>,
      <<"+", "I", "n", "f", "i", "n", "i", "t", "y">> }

\* the type names: the five types in several spellings, and names that are none
ConvertTypes ==
    { <<"s", "t", "r", "i", "n", "g">>,
      <<"n", "u", "m", "b", "e", "r">>,
      <<"N", "U", "M", "B", "E", "R">>,
      <<"N", "u", "m", "b", "e", "r">>,
      <<"b", "o", "o", "l", "e", "a", "n">>,
      <<"B", "o", "o", "l", "e", "a", "n">>,
      <<"a", "r", "r", "a", "y">>,
      <<"A", "R", "R", "A", "Y">>,
      <<"j", "s", "o", "n">>,
      <<"b", "o", "g", "u", "s">>,
      <<>>,
      <<SP, "n", "u", "m", "b", "e", "r">> }

InitConvert ==
    /\ env = EmptyEnv
    /\ content = <<>>
    /\ lines = <<>>
    /\ i = 0
    /\ result = <<>>
    /\ key = <<>>
    /\ stack = <<>>
    /\ opt = NoOptions
    /\ text = <<>>
    /\ input = <<>>
    /\ schema = NoSchema
    /\ outcome = NoOutcome
    /\ outcome2 = NoOutcome
    /\ convValue \in {StrV(v) : v \in ConvertTexts}
    /\ convType \in ConvertTypes
    /\ convOut = NoConversion
    /\ entryPoint = "none"
    /\ options = NoLoadOptions
    /\ firstResult = NoFirstResult
    /\ calls = 0
    /\ pc = "convert"
    /\ err = "none"

\* convertType(convValue, convType), lines 294-365
ConvertCall ==
    /\ pc = "convert"
    /\ convOut' = convertType(convValue, convType)
    /\ pc' = "converted"
    /\ UNCHANGED <<env, content, lines, i, result, key, stack, opt, text, valVars,
                   convValue, convType, callVars, err>>

NextConvert == ConvertCall

SpecConvert == InitConvert /\ [][NextConvert]_vars

----------------------------------------------------------------------------
(* Claims about convertType, checked under SpecConvert *)

\* the value handed in, trimmed and in lower case
Normalised == toLowerCase(trim(convValue.s))

TrueWords == { <<"t","r","u","e">>, <<"1">>, <<"y","e","s">>, <<"o","n">>,
               <<"e","n","a","b","l","e","d">> }

FalseWords == { <<"f","a","l","s","e">>, <<"0">>, <<"n","o">>, <<"o","f","f">>,
                <<"d","i","s","a","b","l","e","d">> }

\* C14: convertType(v, "boolean") trims v and puts it in lower case; it
\* returns true exactly for true, 1, yes, on, enabled, false exactly for false,
\* 0, no, off, disabled, and throws a conversion error for every other string,
\* the empty and the blank string included.
C14_Boolean ==
    (pc = "converted" /\ convType = TypeBoolean) =>
        /\ convOut = Converted(BoolV(TRUE)) <=> Normalised \in TrueWords
        /\ convOut = Converted(BoolV(FALSE)) <=> Normalised \in FalseWords
        /\ ~convOut.ok <=> Normalised \notin TrueWords \cup FalseWords
        /\ ~convOut.ok => convOut.error \in {"empty", "not-a-boolean"}

\* " Off" is false
C14_Witness ==
    /\ pc = "converted"
    /\ convType = TypeBoolean
    /\ convValue = StrV(<<SP, "O", "f", "f">>)
    /\ convOut = Converted(BoolV(FALSE))

\* the positions of the commas of v, ascending, between 0 and Len(v) + 1
Cuts(v) ==
    <<0>> \o SelectSeq([p \in 1..Len(v) |-> p], LAMBDA p : v[p] = ",")
          \o <<Len(v) + 1>>

\* the texts between the commas of v, each trimmed, the empty ones left out
Pieces(v) ==
    SelectSeq([k \in 1..(Len(Cuts(v)) - 1) |->
                  trim(SubSeq(v, Cuts(v)[k] + 1, Cuts(v)[k + 1] - 1))],
              LAMBDA piece : piece # <<>>)

\* C15: convertType(v, "array") never throws; it returns the pieces of v
\* between commas, trimmed, in their order, without those that are empty after
\* trimming: no element is empty or has white space at either end, the empty
\* string gives the empty array, and "a, b ,,c" gives ["a", "b", "c"].
C15_Array ==
    (pc = "converted" /\ convType = TypeArray) =>
        /\ convOut.ok
        /\ convOut.val = ArrV(Pieces(convValue.s))
        /\ \A j \in 1..Len(convOut.val.items) :
              TrimmedNonEmpty(convOut.val.items[j])
        /\ convValue.s = <<>> => convOut.val = ArrV(<<>>)
        /\ convValue.s = <<"a", ",", SP, "b", SP, ",", ",", "c">>
              => convOut.val = ArrV(<< <<"a">>, <<"b">>, <<"c">> >>)

\* "a, b ,,c" is converted
C15_Witness ==
    /\ pc = "converted"
    /\ convType = TypeArray
    /\ convValue = StrV(<<"a", ",", SP, "b", SP, ",", ",", "c">>)
    /\ convOut = Converted(ArrV(<< <<"a">>, <<"b">>, <<"c">> >>))

\* text read as a decimal number: an optional sign, then digits with an
\* optional fraction and an optional exponent; ok is FALSE for any other text
DecimalReading(t) ==
    LET signed == t # <<>> /\ t[1] \in {"+", "-"}
    IN  signedDecimal(signed /\ t[1] = "-",
                      unsignedDecimal(IF signed THEN Tail(t) ELSE t))

SupportedTypes == {TypeString, TypeNumber, TypeBoolean, TypeArray, TypeJson}

\* C16: convertType(v, "number") throws a conversion error when v is empty
\* after trimming or is not numeric text, returns the special value for
\* infinity, -infinity and nan in any case, and otherwise returns v read as a
\* decimal number; the type name is matched in any case, and a type name that
\* is none of string, number, boolean, array, json throws an unsupported-type
\* error.
C16_Number ==
    pc = "converted" =>
        /\ toLowerCase(convType) = TypeNumber =>
              IF trim(convValue.s) = <<>> THEN ~convOut.ok
              ELSE IF Normalised = toLowerCase(InfinityName)
                   THEN convOut = Converted(SpecialV(InfinityName))
              ELSE IF Normalised = toLowerCase(MinusInfinityName)
                   THEN convOut = Converted(SpecialV(MinusInfinityName))
              ELSE IF Normalised = toLowerCase(NaNName)
                   THEN convOut = Converted(SpecialV(NaNName))
              ELSE IF DecimalReading(trim(convValue.s)).ok
                   THEN convOut = Converted(DecimalReading(trim(convValue.s)).val)
              ELSE ~convOut.ok
        /\ toLowerCase(convType) \notin SupportedTypes =>
              convOut = Failed("unsupported-type")

----------------------------------------------------------------------------
(* populate, load and config *)

\* process.env with name set to value
SetEnv(e, name, value) ==
    [n \in DOMAIN e \cup {name} |-> IF n = name THEN value ELSE e[n]]

\* a populate that assigns every key, as with override = true
RECURSIVE populateFrom_noCheck(_, _, _)
populateFrom_noCheck(parsed, override, e) ==
    IF parsed = <<>> THEN e
    ELSE populateFrom_noCheck(Tail(parsed), override,
                              SetEnv(e, parsed[1].key, parsed[1].value))

\* lines 201-205: the loop of populate, from the environment e
RECURSIVE populateFrom(_, _, _)
populateFrom(parsed, override, e) ==
    IF parsed = <<>> THEN e
    ELSE populateFrom(Tail(parsed), override,
                      IF override \/ parsed[1].key \notin DOMAIN e
                      THEN SetEnv(e, parsed[1].key, parsed[1].value)
                      ELSE e)

\* populate(parsed, override), lines 193-206: process.env after the call
populate(parsed, override) == populateFrom(parsed, override, env)

\* opt.override of load (lines 20-26): the caller's override, or false
loadOverride(o) == IF o.hasOverride THEN o.override ELSE FALSE

\* the options config hands to load (line 446): { override: true, ...options }
configOptions(o) ==
    IF o.hasOverride THEN o ELSE [o EXCEPT !.hasOverride = TRUE, !.override = TRUE]

\* the options of the caller: no override, override: false, override: true
LoadOptions ==
    { NoLoadOptions, [hasOverride |-> TRUE, override |-> FALSE],
      [hasOverride |-> TRUE, override |-> TRUE] }

\* the contents of the file: assignments of A, B, C, one of them empty, one
\* with a reference
FileLines ==
    { <<"A", "=", "1">>, <<"B", "=", "2">>, <<"A", "=">>,
      <<"C", "=", DOLLAR, "A">> }

Files == {joinLines(ls) : ls \in UNION {[1..n -> FileLines] : n \in 0..MaxLines}}

\* process.env before the call: empty, or holding A, or A and B, A empty
PopulateEnvs ==
    { EmptyEnv,
      [name \in {<<"A">>} |-> <<"e">>],
      [name \in {<<"A">>, <<"B">>} |-> IF name = <<"A">> THEN <<>> ELSE <<"x">>] }

InitPopulate ==
    /\ env \in PopulateEnvs
    /\ content = <<>>
    /\ lines = <<>>
    /\ i = 0
    /\ result = <<>>
    /\ key = <<>>
    /\ stack = <<>>
    /\ opt = NoOptions
    /\ text = <<>>
    /\ input = <<>>
    /\ schema = NoSchema
    /\ outcome = NoOutcome
    /\ outcome2 = NoOutcome
    /\ convValue = NullV
    /\ convType = <<>>
    /\ convOut = NoConversion
    /\ entryPoint = "none"
    /\ options = NoLoadOptions
    /\ firstResult = NoFirstResult
    /\ calls = 0
    /\ pc = "call"
    /\ err = "none"

\* the options load works with: those of its caller, or those config hands it
loadOptions == IF entryPoint = "config" THEN configOptions(options) ELSE options

\* load up to the call of parse (lines 14-50), for options without a schema:
\* the file does not exist and load returns {}, or its content is read
LoadFile ==
    /\ \/ /\ pc' = "loaded"
          /\ UNCHANGED content
       \/ /\ \E file \in Files : content' = file
          /\ pc' = "start"
    /\ UNCHANGED <<env, lines, i, result, key, stack, opt, text, valVars, convVars,
                   firstResult, calls, err>>

\* load(options)
LoadCall ==
    /\ pc = "call"
    /\ entryPoint' = "load"
    /\ options' \in LoadOptions
    /\ LoadFile

\* config(options): load({ override: true, ...options })
ConfigCall ==
    /\ pc = "call"
    /\ entryPoint' = "config"
    /\ options' \in LoadOptions
    /\ LoadFile

\* lines 58-60 of load: populate(parsed, opt.override); return parsed
LoadPopulate ==
    /\ pc = "done"
    /\ entryPoint \in {"load", "config"}
    /\ env' = populate(result, loadOverride(loadOptions))
    /\ pc' = "loaded"
    /\ UNCHANGED <<content, lines, i, result, key, stack, opt, text, valVars,
                   convVars, callVars, err>>

\* No file nests references: ExpandDepthExceeded is never enabled.
NextPopulate ==
    \/ LoadCall
    \/ ConfigCall
    \/ ParseCall
    \/ ParseLine
    \/ ExpandRef
    \/ ExpandReturn
    \/ ParseReturn
    \/ LoadPopulate

SpecPopulate == InitPopulate /\ [][NextPopulate]_vars

\* the override the claim gives the call: the one the caller passed, else
\* false for load and true for config
ClaimedOverride ==
    IF options.hasOverride THEN options.override ELSE entryPoint = "config"

\* C17: populate with override = false leaves every key that process.env has
\* and sets the keys of parsed that it lacks; with override = true it sets
\* every key of parsed; the keys of process.env that parsed lacks are
\* unchanged.  load passes override = false and config override = true,
\* unless the caller passes override.
C17_PopulateFrame ==
    [][(pc = "done" /\ pc' = "loaded") =>
          /\ DOMAIN env' = DOMAIN env \cup Keys(result)
          /\ \A k \in DOMAIN env :
                (~ClaimedOverride \/ k \notin Keys(result)) => env'[k] = env[k]
          /\ \A k \in Keys(result) :
                (ClaimedOverride \/ k \notin DOMAIN env)
                    => env'[k] = Get(result, k)]_vars

\* config() with no override has replaced the A of process.env and added C;
\* B, which the file lacks, is unchanged
C17_Witness ==
    /\ pc = "loaded"
    /\ entryPoint = "config"
    /\ ~options.hasOverride
    /\ result = <<[key |-> <<"A">>, value |-> <<"1">>],
                  [key |-> <<"C">>, value |-> <<"1">>]>>
    /\ DOMAIN env = {<<"A">>, <<"B">>, <<"C">>}
    /\ env[<<"A">>] = <<"1">> /\ env[<<"B">>] = <<"x">> /\ env[<<"C">>] = <<"1">>

----------------------------------------------------------------------------
(* The specification of sequences of calls of the four entry points: a call   *)
(* of parse, then at most MaxCalls calls of validateAndConvert, convertType   *)
(* and generate, and calls of parse with the same text, in any order          *)

MaxCalls == 2

\* documents that read the environment, before and after assigning the name
PureDocs ==
    { joinLines(ls) : ls \in
        { << <<"B", "=", DOLLAR, "A">> >>,
          << <<"A", "=", "1">>, <<"B", "=", DOLLAR, "A">> >>,
          << <<"B", "=", DOLLAR, "A">>, <<"A", "=", "1">> >>,
          << <<"A", "=", DOLLAR, "{", "A", "}">> >> } }

PureEnvs == { EmptyEnv, [name \in {<<"A">>} |-> <<"e">>] }

\* process.env as the source of generate, which sorts its keys
EnvMapping(e) ==
    LET ks == CHOOSE q \in [1..Cardinality(DOMAIN e) -> DOMAIN e] :
                  \A a, b \in 1..Cardinality(DOMAIN e) :
                      a < b => StrLess(q[a], q[b])
    IN  [j \in 1..Len(ks) |-> [key |-> ks[j], value |-> e[ks[j]]]]

PureSchemas ==
    { NoSchema,
      [required |-> <<<<"A">>>>, variables |-> <<>>],
      [required |-> <<>>,
       variables |-> <<[key |-> <<"B">>, config |-> Config(TypeNumber, FALSE, NullV)]>>] }

InitPure ==
    /\ env \in PureEnvs
    /\ content \in PureDocs
    /\ lines = <<>>
    /\ i = 0
    /\ result = <<>>
    /\ key = <<>>
    /\ stack = <<>>
    /\ opt = NoOptions
    /\ text = <<>>
    /\ input = <<>>
    /\ schema = NoSchema
    /\ outcome = NoOutcome
    /\ outcome2 = NoOutcome
    /\ convValue = NullV
    /\ convType = <<>>
    /\ convOut = NoConversion
    /\ entryPoint = "none"
    /\ options = NoLoadOptions
    /\ firstResult = NoFirstResult
    /\ calls = 0
    /\ pc = "start"
    /\ err = "none"

\* the caller keeps the mapping the first call of parse returned
KeepFirst ==
    /\ pc = "done"
    /\ ~firstResult.has
    /\ firstResult' = [has |-> TRUE, value |-> result]
    /\ pc' = "idle"
    /\ UNCHANGED <<env, content, lines, i, result, key, stack, opt, text, valVars,
                   convVars, entryPoint, options, calls, err>>

\* validateAndConvert(parsed, schema) on the mapping parse returned
CallValidate ==
    /\ pc = "idle"
    /\ calls < MaxCalls
    /\ input' = asValues(result)
    /\ schema' \in PureSchemas
    /\ outcome' = validateAndConvert(input', schema')
    /\ calls' = calls + 1
    /\ UNCHANGED <<env, content, lines, i, result, key, stack, opt, text, outcome2,
                   convVars, entryPoint, options, firstResult, pc, err>>

\* convertType(value, type)
CallConvert ==
    /\ pc = "idle"
    /\ calls < MaxCalls
    /\ convValue' \in {StrV(<<"1">>), StrV(<<"x">>)}
    /\ convType' \in {TypeNumber, TypeBoolean}
    /\ convOut' = convertType(convValue', convType')
    /\ calls' = calls + 1
    /\ UNCHANGED <<env, content, lines, i, result, key, stack, opt, text, valVars,
                   entryPoint, options, firstResult, pc, err>>

\* generate() with process.env as the source, or generate({source}) with the
\* mapping parse returned
CallGenerate ==
    /\ pc = "idle"
    /\ calls < MaxCalls
    /\ opt' \in {SourceOnly(EnvMapping(env)), SourceOnly(result)}
    /\ text' = generate(opt')
    /\ calls' = calls + 1
    /\ UNCHANGED <<env, content, lines, i, result, key, stack, valVars, convVars,
                   entryPoint, options, firstResult, pc, err>>

\* parse(content) again, with the same text
CallParse ==
    /\ pc = "idle"
    /\ pc' = "start"
    /\ UNCHANGED <<env, content, lines, i, result, key, stack, opt, text, valVars,
                   convVars, callVars, err>>

\* the later call of parse has returned
ParseAgainReturn ==
    /\ pc = "done"
    /\ firstResult.has
    /\ pc' = "idle"
    /\ UNCHANGED <<env, content, lines, i, result, key, stack, opt, text, valVars,
                   convVars, callVars, err>>

\* No document nests references: ExpandDepthExceeded is never enabled.
NextPure ==
    \/ ParseCall
    \/ ParseLine
    \/ ExpandRef
    \/ ExpandReturn
    \/ ParseReturn
    \/ KeepFirst
    \/ CallValidate
    \/ CallConvert
    \/ CallGenerate
    \/ CallParse
    \/ ParseAgainReturn

SpecPure == InitPure /\ [][NextPure]_vars

\* C18: parse, validateAndConvert, convertType and generate are pure: no step
\* of them changes process.env; a call of validateAndConvert, convertType or
\* generate leaves the text and the mapping it was handed unchanged; and after
\* any calls of them, parse of the same text under the same environment
\* returns a mapping equal to the one it returned first.
C18_Pure ==
    /\ [][env' = env /\ content' = content]_vars
    /\ [][(pc = "idle" /\ pc' = "idle") => result' = result]_vars
    /\ []((pc = "done" /\ firstResult.has) => result = firstResult.value)

\* parse has returned {B: "", A: "1"} again after a call of validateAndConvert
\* on that mapping and a call of generate
C18_Witness ==
    /\ pc = "done"
    /\ calls = MaxCalls
    /\ firstResult.has
    /\ result = <<[key |-> <<"B">>, value |-> <<>>],
                  [key |-> <<"A">>, value |-> <<"1">>]>>
    /\ schema.required = <<<<"A">>>>
    /\ outcome.result = asValues(result)
    /\ text # <<>>

----------------------------------------------------------------------------
(* Claims about line continuation, checked under SpecLines *)

\* the letters that tell the lines of the pool apart
Markers == {"p", "q", "r", "s", "t", "u", "v"}

\* the entries of the mapping m whose key or value holds the character c
EntriesWith(m, c) ==
    {j \in 1..Len(m) : Contains(m[j].key, c) \/ Contains(m[j].value, c)}

\* the joined line: while it ends in a backslash and line q + 1 exists, the
\* backslash is removed and line q + 1, trimmed, is appended
RECURSIVE JoinedFrom(_, _, _)
JoinedFrom(ls, line, q) ==
    IF endsWith(line, BS) /\ q < Len(ls)
    THEN JoinedFrom(ls, sliceInit(line) \o trim(ls[q + 1]), q + 1)
    ELSE line

\* the first line is blank or a comment
FirstSkipped(ls) == trim(ls[1]) = <<>> \/ startsWith(trim(ls[1]), "#")

\* C19: while the joined line ends in a backslash and a next line exists, the
\* backslash is removed and the next line, trimmed, is appended; the lines
\* appended are not processed again, so every line contributes to at most one
\* assignment; a comment line ending in a backslash is skipped and the line
\* after it is processed on its own.
C19_ContinuationConsumesOnce ==
    pc = "done" =>
        /\ \A c \in Markers : Cardinality(EntriesWith(result, c)) <= 1
        /\ (~FirstSkipped(lines) /\ ~Malformed(JoinedFrom(lines, trim(lines[1]), 1))) =>
              LET line == JoinedFrom(lines, trim(lines[1]), 1)
                  sep == indexOf(line, "=")
              IN  result[1] = [key |-> trim(SubSeq(line, 1, sep - 1)),
                               value |-> trim(SubSeq(line, sep + 1, Len(line)))]
        /\ lines[1] = LineCommentContinued =>
              result = rawAssignments(Tail(lines), 0, <<>>)
        /\ lines = <<LineAssignContinued>> =>
              result = <<[key |-> <<"A">>, value |-> <<"p", BS>>]>>
        /\ lines = <<LineCommentContinued, LineAssignPadded>> =>
              result = <<[key |-> <<"B">>, value |-> <<"q">>]>>

\* A=p\ then r\ then B = q give the one assignment A = "prB = q"
C19_Witness ==
    /\ pc = "done"
    /\ lines = <<LineAssignContinued, LineBareContinued, LineAssignPadded>>
    /\ result = <<[key |-> <<"A">>,
                   value |-> <<"p", "r", "B", SP, "=", SP, "q">>]>>

\* C20: a line whose last two characters are backslashes is not joined with
\* the next line: its value keeps both backslashes and the following line is
\* processed on its own.
C20_EscapedBackslashNotJoined ==
    (pc = "done" /\ lines[1] = LineTwoBackslashes) =>
        /\ result[1] = [key |-> <<"C">>, value |-> <<"v", BS, BS>>]
        /\ result = <<result[1]>> \o rawAssignments(Tail(lines), 0, <<>>)

----------------------------------------------------------------------------
(* The last line of the text, checked under SpecLines *)

\* the lines of the pool that end in a backslash
EndingInBackslash ==
    { LineAssignContinued, LineBareContinued, LineCommentContinued,
      LineTwoBackslashes }

\* the letter that tells the line apart
MarkerOf(line) == CHOOSE c \in Markers : Contains(line, c)

\* C21: a backslash that ends the last line of the text, where no line
\* follows, is not a continuation: parse never moves its index past the last
\* line, and when the last line contributes to an assignment (on its own or
\* appended to the lines before it) the value of that assignment ends in the
\* backslash; after B = q the last line A=p\ gives A the value p\, and a last
\* line C=v\\ on its own keeps both backslashes.
C21_TrailingBackslashLiteral ==
    /\ pc \in {"loop", "done"} => i <= Len(lines)
    /\ pc = "expand" => i < Len(lines)
    /\ (pc = "done" /\ lines[Len(lines)] \in EndingInBackslash) =>
          /\ \A j \in EntriesWith(result, MarkerOf(lines[Len(lines)])) :
                /\ j = Len(result)
                /\ endsWith(result[j].value, BS)
          /\ lines = <<LineAssignPadded, LineAssignContinued>> =>
                result = <<[key |-> <<"B">>, value |-> <<"q">>],
                           [key |-> <<"A">>, value |-> <<"p", BS>>]>>
          /\ lines = <<LineBare, LineTwoBackslashes>> =>
                result = <<[key |-> <<"C">>, value |-> <<"v", BS, BS>>]>>

\* B = q, then A=p\ as the last line: A is "p" and the backslash
C21_Witness ==
    /\ pc = "done"
    /\ lines = <<LineAssignPadded, LineAssignContinued>>
    /\ i = Len(lines)
    /\ result = <<[key |-> <<"B">>, value |-> <<"q">>],
                  [key |-> <<"A">>, value |-> <<"p", BS>>]>>

----------------------------------------------------------------------------
(* The specification of parse on one assignment A=value, the value drawn      *)
(* from the strings of quotes, backslashes and letters.  No value holds "$",  *)
(* so the expander returns every value as it is.                              *)

MaxQuoted == 4

QuoteChars == {DQ, SQ, BS, "a", "n"}

\* every string of at most MaxQuoted characters of QuoteChars, and longer
\* values: a"b"c, a quoted value between blanks, a quote after a blank
QuotedValues ==
    UNION {[1..n -> QuoteChars] : n \in 0..MaxQuoted}
    \cup { <<"a", DQ, "b", DQ, "c">>,
           <<SP, DQ, "a", BS, "n", DQ, SP>>,
           <<SP, SQ, SP, "a", SQ>>,
           <<DQ, SP>> }

AssignmentOf(value) == <<"A", "=">> \o value

InitQuotes ==
    /\ env = EmptyEnv
    /\ content \in {AssignmentOf(value) : value \in QuotedValues}
    /\ lines = <<>>
    /\ i = 0
    /\ result = <<>>
    /\ key = <<>>
    /\ stack = <<>>
    /\ opt = NoOptions
    /\ text = <<>>
    /\ input = <<>>
    /\ schema = NoSchema
    /\ outcome = NoOutcome
    /\ outcome2 = NoOutcome
    /\ convValue = NullV
    /\ convType = <<>>
    /\ convOut = NoConversion
    /\ entryPoint = "none"
    /\ options = NoLoadOptions
    /\ firstResult = NoFirstResult
    /\ calls = 0
    /\ pc = "start"
    /\ err = "none"

\* No value holds "$": ExpandRef and ExpandDepthExceeded are never enabled.
NextQuotes ==
    \/ ParseCall
    \/ ParseLine
    \/ ExpandReturn
    \/ ParseReturn

SpecQuotes == InitQuotes /\ [][NextQuotes]_vars

\* the value of the assignment as written, trimmed
WrittenValue == trim(SubSeq(content, 3, Len(content)))

\* the value is at least two characters long and its first and last
\* characters are the same quote character
FullyQuoted(v) ==
    /\ Len(v) >= 2
    /\ v[1] \in {DQ, SQ}
    /\ v[Len(v)] = v[1]

\* C22: the quotes of a value are stripped only when the trimmed value has at
\* least two characters and its first and last characters are the same quote
\* character; every other value is in the mapping as written, trimmed, with
\* no escape sequence replaced: a value that is one quote character, the
\* value a"b"c, and a value that starts with one kind of quote and ends with
\* the other.
C22_QuoteStripping ==
    pc = "done" =>
        /\ ~FullyQuoted(WrittenValue) =>
              result = <<[key |-> <<"A">>, value |-> WrittenValue]>>
        /\ content = AssignmentOf(<<DQ>>) =>
              result = <<[key |-> <<"A">>, value |-> <<DQ>>]>>
        /\ content = AssignmentOf(<<"a", DQ, "b", DQ, "c">>) =>
              result = <<[key |-> <<"A">>, value |-> <<"a", DQ, "b", DQ, "c">>]>>
        /\ content = AssignmentOf(<<DQ, "a", SQ>>) =>
              result = <<[key |-> <<"A">>, value |-> <<DQ, "a", SQ>>]>>

----------------------------------------------------------------------------
(* The specification of parse on values with several references, whose        *)
(* replacements hold references themselves                                    *)

\* the value of A holds a reference (to Z, which is nowhere defined) and the
\* value of B a reference to A: A expands to "a" and B to "a"
SiblingEnv ==
    [name \in {NameA, NameB} |->
        IF name = NameA THEN Ref(NameZ) \o <<"a">> ELSE <<DOLLAR, "A">>]

\* the value of A refers to A itself
SelfEnv == [name \in {NameA} |-> Ref(NameA)]

ExpandEnvs ==
    { EmptyEnv, SiblingEnv, SelfEnv, CycleEnv, ChainAtLimit, ChainOverLimit }

LineSiblings == <<"C", "=">> \o Ref(NameA) \o Ref(NameB)          \* C=${A}${B}
LineTwice == <<"D", "=", DOLLAR, "A", "-", DOLLAR, "A">>            \* D=$A-$A
LineChain == <<"C", "=">> \o Ref(ChainName(1))                     \* C=${X1}

ExpandPool ==
    { LineSiblings, LineTwice, LineChain,
      <<"A", "=", "1">>,                                           \* A=1
      <<"B", "=">> \o Ref(NameA),                                  \* B=${A}
      <<"A", "=">> \o Ref(NameA) }                                 \* A=${A}

ExpandDocs ==
    {joinLines(ls) : ls \in UNION {[1..n -> ExpandPool] : n \in 1..MaxLines}}

InitExpand ==
    /\ env \in ExpandEnvs
    /\ content \in ExpandDocs
    /\ lines = <<>>
    /\ i = 0
    /\ result = <<>>
    /\ key = <<>>
    /\ stack = <<>>
    /\ opt = NoOptions
    /\ text = <<>>
    /\ input = <<>>
    /\ schema = NoSchema
    /\ outcome = NoOutcome
    /\ outcome2 = NoOutcome
    /\ convValue = NullV
    /\ convType = <<>>
    /\ convOut = NoConversion
    /\ entryPoint = "none"
    /\ options = NoLoadOptions
    /\ firstResult = NoFirstResult
    /\ calls = 0
    /\ pc = "start"
    /\ err = "none"

NextExpand ==
    \/ ParseCall
    \/ ParseLine
    \/ ExpandDepthExceeded
    \/ ExpandRef
    \/ ExpandReturn
    \/ ParseReturn

SpecExpand == InitExpand /\ [][NextExpand]_vars

\* the names of a visiting set
Names(visiting) == {visiting[j] : j \in 1..Len(visiting)}

\* the name the call f is resolving: that of the next reference of its value
Resolving(f) == matchAt(f.value, nextMatch(f.value, f.p)).name

\* C23: the top-level call of the expander has an empty visiting set and
\* depth 0; in every call the visiting set has no more names than depth; a
\* call whose depth is over the limit has replaced nothing; no step changes
\* the visiting set or the depth of a call that stays active; a recursive
\* call has the depth of its caller plus one and the caller's names with the
\* name being resolved, so that two references of one value do not see each
\* other's names: with A = "${Z}a" and B = "$A" in the environment,
\* C=${A}${B} gives "aa" and D=$A-$A gives "a-a" without an error.
C23_ExpansionInvariant ==
    /\ [](stack # <<>> =>
            /\ stack[1].visiting = <<>> /\ stack[1].depth = 0
            /\ \A k \in 1..Len(stack) :
                  /\ Cardinality(Names(stack[k].visiting)) <= stack[k].depth
                  /\ Len(stack[k].visiting) <= stack[k].depth
                  /\ stack[k].depth > MaxDepth =>
                        (stack[k].out = <<>> /\ stack[k].p = 1))
    /\ [][/\ \A k \in 1..Len(stack) :
               k <= Len(stack') =>
                  /\ stack'[k].visiting = stack[k].visiting
                  /\ stack'[k].depth = stack[k].depth
          /\ (stack # <<>> /\ Len(stack') = Len(stack) + 1) =>
                /\ stack'[Len(stack')].depth = stack[Len(stack)].depth + 1
                /\ Names(stack'[Len(stack')].visiting) =
                       Names(stack[Len(stack)].visiting)
                          \cup {Resolving(stack[Len(stack)])}]_vars
    /\ []((env = SiblingEnv /\ Finished) =>
            /\ pc = "done"
            /\ content = LineSiblings =>
                  result = <<[key |-> NameC, value |-> <<"a", "a">>]>>
            /\ content = LineTwice =>
                  result = <<[key |-> <<"D">>, value |-> <<"a", "-", "a">>]>>)

\* in C=${A}${B} the reference to A is replaced and the call for B is
\* resolving A, with the names B and A and depth 2
C23_Witness ==
    /\ pc = "expand"
    /\ env = SiblingEnv
    /\ content = LineSiblings
    /\ Len(stack) = 3
    /\ stack[1].out = <<"a">>
    /\ stack[1].visiting = <<>>
    /\ stack[3].visiting = <<NameB, NameA>>
    /\ stack[3].depth = 2

----------------------------------------------------------------------------
(* load(options) with a schema: the file is read and parsed, the mapping is   *)
(* validated and converted, and process.env is populated                      *)

\* the text of a run of zeros
Zeros(k) == [j \in 1..k |-> "0"]

\* Number.prototype.toString for the digits of a positive n and the exponent
\* e <= 0 of n * 10^e: decimal notation, or exponent notation below 10^-6
unsignedString(digits, e) ==
    IF e = 0 THEN digits
    ELSE IF Len(digits) + e > 0
         THEN SubSeq(digits, 1, Len(digits) + e) \o <<".">>
                 \o SubSeq(digits, Len(digits) + e + 1, Len(digits))
    ELSE IF Len(digits) + e > -6
         THEN <<"0", ".">> \o Zeros(-(Len(digits) + e)) \o digits
    ELSE (IF Len(digits) = 1 THEN digits
          ELSE <<digits[1], ".">> \o Tail(digits))
            \o <<"e", "-">> \o Dec(1 - (Len(digits) + e))

\* String(value) of a number
numberString(v) ==
    IF v.s # <<>> THEN v.s
    ELSE IF v.n = 0 THEN <<"0">>
    ELSE IF v.n < 0 THEN <<"-">> \o unsignedString(Dec(-v.n), v.e)
    ELSE unsignedString(Dec(v.n), v.e)

\* Array.prototype.join(",") of an array of strings
RECURSIVE joinComma(_)
joinComma(items) ==
    IF items = <<>> THEN <<>>
    ELSE IF Len(items) = 1 THEN items[1]
    ELSE items[1] \o <<",">> \o joinComma(Tail(items))

\* the string process.env keeps for an assigned value: String(value)
envString(v) ==
    IF v.t = "string" THEN v.s
    ELSE IF v.t = "number" THEN numberString(v)
    ELSE IF v.t = "boolean"
         THEN (IF v.n = 1 THEN <<"t","r","u","e">> ELSE <<"f","a","l","s","e">>)
    ELSE IF v.t = "array" THEN joinComma(v.items)
    ELSE <<"n","u","l","l">>

\* the mapping as process.env keeps it
RECURSIVE asStrings(_)
asStrings(m) ==
    IF m = <<>> THEN <<>>
    ELSE <<[key |-> m[1].key, value |-> envString(m[1].value)]>>
            \o asStrings(Tail(m))

\* the schemas of load: A is required, P is a number with the default 8080
\* and D a boolean; or L is an array and Q has the default null
LoadSchemas ==
    { [required |-> <<NameA>>,
       variables |-> <<[key |-> NameP, config |-> Config(TypeNumber, TRUE, NumV(8080, 0))],
                       [key |-> NameD, config |-> Config(TypeBoolean, FALSE, NullV)]>>],
      [required |-> <<>>,
       variables |-> <<[key |-> <<"L">>, config |-> Config(TypeArray, FALSE, NullV)],
                       [key |-> <<"Q">>, config |-> Config(<<>>, TRUE, NullV)]>>] }

\* the options of the caller: with and without override, with and without
\* a schema
SchemaOptions ==
    { [hasOverride |-> FALSE, override |-> FALSE, hasSchema |-> FALSE],
      [hasOverride |-> FALSE, override |-> FALSE, hasSchema |-> TRUE],
      [hasOverride |-> TRUE, override |-> TRUE, hasSchema |-> TRUE] }

SchemaFileLines ==
    { <<"A", "=", "1">>,                          \* A=1
      <<"A", "=">>,                               \* A=
      <<"P", "=", "1", "e", "3">>,                \* P=1e3
      <<"P", "=", "x">>,                          \* P=x
      <<"D", "=", "Y", "E", "S">>,                \* D=YES
      <<"L", "=", "a", ",", SP, "b", ",">>,       \* L=a, b,
      <<"C", "=">> \o Ref(NameA),                 \* C=${A}
      LineChain }                                 \* C=${X1}

SchemaFiles ==
    {joinLines(ls) : ls \in UNION {[1..n -> SchemaFileLines] : n \in 0..MaxLines}}

\* process.env before the call: empty, holding A and P, holding a cycle, or
\* holding a chain of references over the depth limit
SchemaEnvs ==
    { EmptyEnv,
      [name \in {NameA, NameP} |-> IF name = NameA THEN <<"e">> ELSE <<"7">>],
      CycleEnv,
      ChainOverLimit }

InitLoad ==
    /\ env \in SchemaEnvs
    /\ content = <<>>
    /\ lines = <<>>
    /\ i = 0
    /\ result = <<>>
    /\ key = <<>>
    /\ stack = <<>>
    /\ opt = NoOptions
    /\ text = <<>>
    /\ input = <<>>
    /\ schema = NoSchema
    /\ outcome = NoOutcome
    /\ outcome2 = NoOutcome
    /\ convValue = NullV
    /\ convType = <<>>
    /\ convOut = NoConversion
    /\ entryPoint = "none"
    /\ options = NoLoadOptions
    /\ firstResult = NoFirstResult
    /\ calls = 0
    /\ pc = "call"
    /\ err = "none"

\* load(options) or config(options) up to the call of parse (lines 14-51):
\* the file does not exist and load returns {}, or its content is read
LoadSchemaCall ==
    /\ pc = "call"
    /\ entryPoint' \in {"load", "config"}
    /\ options' \in SchemaOptions
    /\ IF options'.hasSchema THEN schema' \in LoadSchemas ELSE schema' = NoSchema
    /\ \/ /\ pc' = "loaded"
          /\ UNCHANGED content
       \/ /\ \E file \in SchemaFiles : content' = file
          /\ pc' = "start"
    /\ UNCHANGED <<env, lines, i, result, key, stack, opt, text, input, outcome,
                   outcome2, convVars, firstResult, calls, err>>

\* a load that populates process.env with the parsed mapping before it
\* validates it
LoadValidate_populatesFirst ==
    /\ pc = "done"
    /\ input' = asValues(result)
    /\ env' = populate(result, loadOverride(loadOptions))
    /\ outcome' = IF options.hasSchema
                  THEN validateAndConvert(asValues(result), schema)
                  ELSE [threw |-> FALSE, errors |-> <<>>, result |-> asValues(result)]
    /\ IF outcome'.threw
       THEN pc' = "threw" /\ err' = "validation"
       ELSE pc' = "validated" /\ UNCHANGED err
    /\ UNCHANGED <<content, lines, i, result, key, stack, opt, text, schema,
                   outcome2, convVars, callVars>>

\* lines 53-56 of load: parsed = validateAndConvert(parsed, opt.schema) when
\* there is a schema; its error leaves load through the catch of lines 62-71
LoadValidate ==
    /\ pc = "done"
    /\ input' = asValues(result)
    /\ outcome' = IF options.hasSchema
                  THEN validateAndConvert(asValues(result), schema)
                  ELSE [threw |-> FALSE, errors |-> <<>>, result |-> asValues(result)]
    /\ IF outcome'.threw
       THEN pc' = "threw" /\ err' = "validation"
       ELSE pc' = "validated" /\ UNCHANGED err
    /\ UNCHANGED <<env, content, lines, i, result, key, stack, opt, text, schema,
                   outcome2, convVars, callVars>>

\* lines 58-61 of load: populate(parsed, opt.override); return parsed
LoadWrite ==
    /\ pc = "validated"
    /\ env' = populate(asStrings(outcome.result), loadOverride(loadOptions))
    /\ pc' = "loaded"
    /\ UNCHANGED <<content, lines, i, result, key, stack, opt, text, valVars,
                   convVars, callVars, err>>

NextLoad ==
    \/ LoadSchemaCall
    \/ ParseCall
    \/ ParseLine
    \/ ExpandDepthExceeded
    \/ ExpandRef
    \/ ExpandReturn
    \/ ParseReturn
    \/ LoadValidate
    \/ LoadWrite

SpecLoad == InitLoad /\ [][NextLoad]_vars

\* parse has returned and the validation, when there is a schema, has not
\* thrown
ParsedAndValidated ==
    /\ stack = <<>> /\ i >= Len(lines) /\ err = "none"
    /\ ~outcome.threw /\ outcome.errors = <<>>
    /\ outcome = IF options.hasSchema
                 THEN validateAndConvert(asValues(result), schema)
                 ELSE [threw |-> FALSE, errors |-> <<>>, result |-> asValues(result)]

\* C24: load writes process.env in one step only, after parse has returned
\* and the validation has succeeded; no other step of load changes
\* process.env, so a load that returns {} for a missing file or raises for a
\* circular reference, the depth limit or a schema violation has written no
\* key.  The write takes the validated mapping: the keys written are keys of
\* it, defaults included, and each gets the string of its validated value,
\* as with the file "A=1\nP=1e3" and the schema that requires A and makes P a
\* number, which leave P = "1000" in an empty process.env.
C24_AllOrNothing ==
    /\ [][env' # env => (pc = "validated" /\ pc' = "loaded")]_vars
    /\ [](pc = "validated" => ParsedAndValidated)
    /\ [](pc = "threw" =>
            /\ err \in {"circular", "depth", "validation"}
            /\ env \in SchemaEnvs)
    /\ []((pc = "loaded" /\ content = <<>> /\ outcome = NoOutcome) =>
            (result = <<>> /\ env \in SchemaEnvs))
    /\ [][(pc = "validated" /\ pc' = "loaded") =>
            /\ DOMAIN env' = DOMAIN env \cup Keys(outcome.result)
            /\ \A k \in Keys(outcome.result) :
                  (ClaimedOverride \/ k \notin DOMAIN env)
                      => env'[k] = envString(Get(outcome.result, k))
            /\ \A k \in DOMAIN env :
                  (~ClaimedOverride \/ k \notin Keys(outcome.result))
                      => env'[k] = env[k]]_vars
    /\ []((/\ pc = "loaded"
           /\ content = joinLines(<< <<"A", "=", "1">>, <<"P", "=", "1", "e", "3">> >>)
           /\ schema.required = <<NameA>>
           /\ DOMAIN env = {NameA, NameP}
           /\ ClaimedOverride)
             => (env[NameA] = <<"1">> /\ env[NameP] = <<"1", "0", "0", "0">>))

\* parse has returned {A: "", P: "1e3"}, the schema requires A, load has
\* raised and process.env is still empty
C24_Witness ==
    /\ pc = "threw"
    /\ err = "validation"
    /\ result = <<[key |-> NameA, value |-> <<>>],
                  [key |-> NameP, value |-> <<"1", "e", "3">>]>>
    /\ outcome.threw
    /\ env = EmptyEnv

====
